---- MODULE Spec2Model ----
(***************************************************************************)
(* Model of the retrieval pipeline of video-agent: the transcript chunker, *)
(* the indexing / search engine over the vector store (rag_engine.py), the *)
(* session record written by /process/url (api.py, database.py), the      *)
(* time-window computation of the snippet paths (query_handler.py, api.py),*)
(* the query router (query_handler.py) and the request handlers over the   *)
(* sessions, conversations and messages tables (api.py, database.py).      *)
(*                                                                         *)
(* A text is kept run-length encoded: a sequence of runs [c, n], n >= 1    *)
(* copies of the character c, no two neighbouring runs of the same         *)
(* character, so that equal texts are equal values.  Times are seconds.    *)
(*                                                                         *)
(* Specifications:                                                         *)
(*   ChunkerSpec  chunk_transcript applied to every transcript of the      *)
(*                bounds;                                                  *)
(*   WindowSpec   the two time-window computations applied to every span   *)
(*                list of the bounds;                                      *)
(*   Spec         the engine: index_transcript, search, delete_collection, *)
(*                set_current_collection, ensure_collection_indexed called *)
(*                one at a time in any order;                              *)
(*   QuerySpec    handle_user_query called on the engine, with every      *)
(*                classifier output of ClassifierOutputs;                  *)
(*   ApiSpec      requests to /process/url, one at a time;                 *)
(*   RequestSpec  one user's video, then /search, /query, /snippet/query   *)
(*                and DELETE /sessions requests by either user;            *)
(*   IntentSpec   one processed video, then /query requests with every     *)
(*                classifier output;                                       *)
(*   ConversationSpec  one processed video, then question turns in two     *)
(*                conversations, past the history limit;                   *)
(*   LongIndexSpec  index_transcript on a transcript of up to MaxTexts     *)
(*                chunks, more than two embedding batches;                 *)
(*   SwitchSpec   one user's two videos with different collections, then   *)
(*                requests about either session, one at a time;            *)
(*   InterleavedSpec  /process/url and /search requests on two worker      *)
(*                threads, interleaved at the calls to the store;          *)
(*   TwoUserSpec  two users with a session each, asking under the same     *)
(*                conversation ids;                                        *)
(*   LogSpec      the twin sessions of one video, deleted and queried with *)
(*                failing services.                                        *)
(***************************************************************************)
EXTENDS Integers, Sequences, FiniteSets, TLC

VARIABLES
    transcript,          \* chunker input: the transcript handed to chunk_transcript
    min_chunk_length,    \* chunker input: the threshold argument
    chunked,             \* chunker output: the chunks returned, once the call has been made
    timestamps,          \* window input: the candidate spans (search results), in rank order
    max_duration,        \* window input: the maximum snippet duration, seconds
    window,              \* window output: which path ran and the time range(s) it computed
    collections,         \* chroma_client: collection name -> members (chunk index -> record)
    current,             \* rag_engine._current_collection_name (NoName stands for None)
    sessions,            \* database: the session rows, each with its transcript row
    conversations,       \* database: conversation id -> its row
    messages,            \* database: the message rows, in id order
    lastOp,              \* the last call or request: its arguments and its outcome
    running              \* the requests in progress, one per worker thread, each with its position

Max(a, b) == IF a >= b THEN a ELSE b
Min(a, b) == IF a <= b THEN a ELSE b

(***************************************************************************)
(* Bounds of the chunker inputs.                                           *)
(***************************************************************************)
MaxSegs == 3
MaxTime == 1
MaxMinLen == 3

(***************************************************************************)
(* Strings.                                                                *)
(***************************************************************************)
\* the text made of n copies of the character c
Str(c, n) == IF n = 0 THEN <<>> ELSE << [c |-> c, n |-> n] >>

\* x + y
Cat(x, y) ==
    IF x = <<>> THEN y
    ELSE IF y = <<>> THEN x
    ELSE IF x[Len(x)].c = y[1].c
         THEN SubSeq(x, 1, Len(x) - 1)
                \o << [c |-> y[1].c, n |-> x[Len(x)].n + y[1].n] >>
                \o Tail(y)
         ELSE x \o y

\* len(text)
RECURSIVE StrLen(_)
StrLen(text) == IF text = <<>> THEN 0 ELSE text[1].n + StrLen(Tail(text))

\* text[:n]
RECURSIVE Prefix(_, _)
Prefix(text, n) ==
    IF text = <<>> \/ n <= 0 THEN <<>>
    ELSE IF text[1].n >= n THEN << [c |-> text[1].c, n |-> n] >>
    ELSE << text[1] >> \o Prefix(Tail(text), n - text[1].n)

\* " ".join(texts): the join of the first half, a space, the join of the
\* second half (halving keeps the evaluation depth logarithmic)
RECURSIVE Join(_)
Join(texts) ==
    IF texts = <<>> THEN <<>>
    ELSE IF Len(texts) = 1 THEN texts[1]
    ELSE Cat(Cat(Join(SubSeq(texts, 1, Len(texts) \div 2)), Str(" ", 1)),
             Join(SubSeq(texts, Len(texts) \div 2 + 1, Len(texts))))

(***************************************************************************)
(* chunk_transcript, rag_engine.py:56-90.                                  *)
(* The loop state carries, next to the code's locals, the indices of the   *)
(* segments accumulated so far (current_segs) and the index group of every *)
(* emitted chunk (groups); the code keeps neither, they only record which  *)
(* segment went where.                                                     *)
(***************************************************************************)
ChunkInit ==
    [chunks |-> <<>>, current_texts |-> <<>>, current_start |-> 0,
     current_end |-> 0, current_segs |-> <<>>, groups |-> <<>>]

\* forgets the "or last segment" half of the emit condition
ChunkStep_NoLast(st, i, seg, isLast, min_len) ==
    LET start == IF st.current_texts = <<>> THEN seg.start ELSE st.current_start
        texts == Append(st.current_texts, seg.text)
        segs  == Append(st.current_segs, i)
        chunk_text == Join(texts)
    IN  IF StrLen(chunk_text) >= min_len
        THEN [chunks |-> Append(st.chunks,
                         [text |-> chunk_text, start |-> start, end |-> seg.end]),
              current_texts |-> <<>>, current_start |-> start,
              current_end |-> seg.end, current_segs |-> <<>>,
              groups |-> Append(st.groups, segs)]
        ELSE [chunks |-> st.chunks, current_texts |-> texts,
              current_start |-> start, current_end |-> seg.end,
              current_segs |-> segs, groups |-> st.groups]

\* start and end updates swapped: start follows every segment, end only the first
ChunkStep_SwappedSpan(st, i, seg, isLast, min_len) ==
    LET end   == IF st.current_texts = <<>> THEN seg.end ELSE st.current_end
        texts == Append(st.current_texts, seg.text)
        segs  == Append(st.current_segs, i)
        chunk_text == Join(texts)
    IN  IF StrLen(chunk_text) >= min_len \/ isLast
        THEN [chunks |-> Append(st.chunks,
                         [text |-> chunk_text, start |-> seg.start, end |-> end]),
              current_texts |-> <<>>, current_start |-> seg.start,
              current_end |-> end, current_segs |-> <<>>,
              groups |-> Append(st.groups, segs)]
        ELSE [chunks |-> st.chunks, current_texts |-> texts,
              current_start |-> seg.start, current_end |-> end,
              current_segs |-> segs, groups |-> st.groups]

\* forgets to restart the accumulation after emitting a chunk
ChunkStep_NoReset(st, i, seg, isLast, min_len) ==
    LET start == IF st.current_texts = <<>> THEN seg.start ELSE st.current_start
        texts == Append(st.current_texts, seg.text)
        segs  == Append(st.current_segs, i)
        chunk_text == Join(texts)
    IN  IF StrLen(chunk_text) >= min_len \/ isLast
        THEN [chunks |-> Append(st.chunks,
                         [text |-> chunk_text, start |-> start, end |-> seg.end]),
              current_texts |-> texts, current_start |-> start,
              current_end |-> seg.end, current_segs |-> segs,
              groups |-> Append(st.groups, segs)]
        ELSE [chunks |-> st.chunks, current_texts |-> texts,
              current_start |-> start, current_end |-> seg.end,
              current_segs |-> segs, groups |-> st.groups]

\* emits only once the text is longer than the threshold
ChunkStep_StrictThreshold(st, i, seg, isLast, min_len) ==
    LET start == IF st.current_texts = <<>> THEN seg.start ELSE st.current_start
        texts == Append(st.current_texts, seg.text)
        segs  == Append(st.current_segs, i)
        chunk_text == Join(texts)
    IN  IF StrLen(chunk_text) > min_len \/ isLast
        THEN [chunks |-> Append(st.chunks,
                         [text |-> chunk_text, start |-> start, end |-> seg.end]),
              current_texts |-> <<>>, current_start |-> start,
              current_end |-> seg.end, current_segs |-> <<>>,
              groups |-> Append(st.groups, segs)]
        ELSE [chunks |-> st.chunks, current_texts |-> texts,
              current_start |-> start, current_end |-> seg.end,
              current_segs |-> segs, groups |-> st.groups]

\* one iteration of the for loop, rag_engine.py:72-88
ChunkStep(st, i, seg, isLast, min_len) ==
    LET start == IF st.current_texts = <<>> THEN seg.start ELSE st.current_start
        texts == Append(st.current_texts, seg.text)
        segs  == Append(st.current_segs, i)
        chunk_text == Join(texts)
    IN  IF StrLen(chunk_text) >= min_len \/ isLast
        THEN [chunks |-> Append(st.chunks,
                         [text |-> chunk_text, start |-> start, end |-> seg.end]),
              current_texts |-> <<>>, current_start |-> start,
              current_end |-> seg.end, current_segs |-> <<>>,
              groups |-> Append(st.groups, segs)]
        ELSE [chunks |-> st.chunks, current_texts |-> texts,
              current_start |-> start, current_end |-> seg.end,
              current_segs |-> segs, groups |-> st.groups]

\* the iterations lo..hi of the for loop, in order, from the loop state st:
\* the first half, then the second half from the state the first one left.
\* The test on that state is never true; it makes TLC compute the state
\* before it goes on, which keeps the evaluation depth logarithmic.
RECURSIVE ChunkLoop(_, _, _, _, _)
ChunkLoop(segments, min_len, lo, hi, st) ==
    IF lo > hi THEN st
    ELSE IF lo = hi
    THEN ChunkStep(st, lo, segments[lo], lo = Len(segments), min_len)
    ELSE LET first == ChunkLoop(segments, min_len, lo, (lo + hi) \div 2, st)
         IN  IF DOMAIN first = {} THEN first
             ELSE ChunkLoop(segments, min_len, (lo + hi) \div 2 + 1, hi, first)

\* the whole run: the returned chunks plus the index groups
ChunkRun(t, min_len) == ChunkLoop(t.segments, min_len, 1, Len(t.segments), ChunkInit)

chunk_transcript(t, min_len) == ChunkRun(t, min_len).chunks

(***************************************************************************)
(* Transcripts for the chunker: up to MaxSegs segments, start values       *)
(* non-decreasing, end >= start; a segment may start before the previous   *)
(* one ends.  full_text is the space join of the segment texts             *)
(* (video_transcriber.py:130, 313, 355).                                   *)
(***************************************************************************)
SegTexts == { Str("a", 0), Str("a", 1),
              Cat(Cat(Str("a", 1), Str(" ", 1)), Str("b", 1)) }

Segments ==
    { s \in [start : 0..MaxTime, end : 0..MaxTime, text : SegTexts] :
        s.end >= s.start }

SegTextsOf(segments) == [i \in 1..Len(segments) |-> segments[i].text]

MakeTranscript(segments) ==
    [segments |-> segments, full_text |-> Join(SegTextsOf(segments))]

Chronological(segments) ==
    \A i \in 1..(Len(segments) - 1) : segments[i].start <= segments[i + 1].start

SegmentLists ==
    UNION { { q \in [1..n -> Segments] : Chronological(q) } : n \in 0..MaxSegs }

NotCalled == [returned |-> FALSE, chunks |-> <<>>, groups |-> <<>>]

Returned(run) == [returned |-> TRUE, chunks |-> run.chunks, groups |-> run.groups]

WindowIdle == [path |-> "none", ranges |-> <<>>]

chunkerVars == <<transcript, min_chunk_length, chunked>>
windowVars == <<timestamps, max_duration, window>>
dbVars == <<sessions, conversations, messages>>
engineVars == <<collections, current, dbVars, lastOp, running>>
vars == <<transcript, min_chunk_length, chunked, timestamps, max_duration, window,
          collections, current, sessions, conversations, messages, lastOp, running>>

NoName == <<>>

\* the record of an engine call: what was called with which arguments, what
\* the named collection was like before, and how the call ended
Call == [op |-> "none", video |-> "-", video_id |-> NoName, name |-> NoName,
         has_transcript |-> FALSE, n_results |-> 0, embed_ok |-> TRUE,
         store_ok |-> TRUE, embed_calls |-> 0,
         existed |-> FALSE, before_count |-> 0, raised |-> "none",
         ret_name |-> NoName, ret_bool |-> FALSE, hits |-> <<>>, results |-> <<>>,
         intent |-> "-", parameters |-> "-", has_response |-> FALSE,
         response |-> "-", time_range |-> <<>>, generation_calls |-> 0,
         user_id |-> "-", session_id |-> 0, conversation_id |-> "-",
         status |-> 0, guarded |-> FALSE, searched |-> FALSE, classified |-> FALSE,
         history |-> <<>>, appended |-> 0, current_before |-> NoName,
         output |-> [answered |-> TRUE, has_intent |-> TRUE, intent |-> "-",
                     has_topic |-> TRUE, parameters |-> "null", max_duration |-> 0]]

\* the worker threads that handle requests at the same time, and the record
\* of a thread: the request it handles, where it is in the handler, and what
\* it has read and answered so far
Threads == {"t1", "t2"}

Idle == [op |-> "idle", pc |-> "idle", video |-> "-", user_id |-> "-",
         session_id |-> 0, name |-> NoName, before_count |-> 0, cleared |-> FALSE,
         read_name |-> NoName, between |-> FALSE, results |-> <<>>, status |-> 0]

ChunkerUnused ==
    /\ transcript = MakeTranscript(<<>>)
    /\ min_chunk_length = 0
    /\ chunked = NotCalled

WindowUnused ==
    /\ timestamps = <<>>
    /\ max_duration = 0
    /\ window = WindowIdle

\* the engine after import over an empty store: no collection, pointer None
EngineUnused ==
    /\ collections = <<>>
    /\ current = NoName
    /\ sessions = <<>>
    /\ conversations = <<>>
    /\ messages = <<>>
    /\ lastOp = Call
    /\ running = [t \in Threads |-> Idle]

ChunkerInit ==
    /\ WindowUnused
    /\ EngineUnused
    /\ transcript \in { MakeTranscript(q) : q \in SegmentLists }
    /\ min_chunk_length \in 0..MaxMinLen
    /\ chunked = NotCalled

CallChunkTranscript ==
    /\ ~chunked.returned
    /\ chunked' = Returned(ChunkRun(transcript, min_chunk_length))
    /\ UNCHANGED <<transcript, min_chunk_length, windowVars, engineVars>>

ChunkerNext == CallChunkTranscript

ChunkerSpec == ChunkerInit /\ [][ChunkerNext]_vars

(***************************************************************************)
(* Time windows of the snippet paths.  Inputs are whole seconds; the code  *)
(* halves sums and durations, so a computed range is kept in half seconds  *)
(* (H(s) is s seconds in half seconds) and every /2 below is exact.        *)
(***************************************************************************)
MaxSpans == 2
MaxSpanTime == 5
MaxDuration == 6

H(seconds) == 2 * seconds

StrategyPadding == 2
padding == 2

MinStart(ts) == CHOOSE m \in { ts[i].start : i \in 1..Len(ts) } :
                    \A i \in 1..Len(ts) : m <= ts[i].start
MaxEnd(ts) == CHOOSE m \in { ts[i].end : i \in 1..Len(ts) } :
                    \A i \in 1..Len(ts) : m >= ts[i].end

\* the recentred start is not floored at 0
SnippetTimeRange_NoFloor(ts, max_dur) ==
    LET start == Max(0, H(MinStart(ts)) - H(StrategyPadding))
        end   == H(MaxEnd(ts)) + H(StrategyPadding)
        center == (H(ts[1].start) + H(ts[1].end)) \div 2
    IN  IF end - start > H(max_dur)
        THEN [start |-> center - H(max_dur) \div 2,
              end   |-> center + H(max_dur) \div 2]
        ELSE [start |-> start, end |-> end]

\* recentres on the last span instead of the first
SnippetTimeRange_CentreOnLast(ts, max_dur) ==
    LET start == Max(0, H(MinStart(ts)) - H(StrategyPadding))
        end   == H(MaxEnd(ts)) + H(StrategyPadding)
        center == (H(ts[Len(ts)].start) + H(ts[Len(ts)].end)) \div 2
    IN  IF end - start > H(max_dur)
        THEN [start |-> Max(0, center - H(max_dur) \div 2),
              end   |-> center + H(max_dur) \div 2]
        ELSE [start |-> start, end |-> end]

\* snippet strategy of handle_user_query, query_handler.py:258-267
SnippetTimeRange(ts, max_dur) ==
    LET start == Max(0, H(MinStart(ts)) - H(StrategyPadding))
        end   == H(MaxEnd(ts)) + H(StrategyPadding)
        center == (H(ts[1].start) + H(ts[1].end)) \div 2
    IN  IF end - start > H(max_dur)
        THEN [start |-> Max(0, center - H(max_dur) \div 2),
              end   |-> center + H(max_dur) \div 2]
        ELSE [start |-> start, end |-> end]

\* the recentred range runs a whole max_duration past the centre
ResultTimeRange_LongTail(result, max_dur) ==
    LET start == Max(0, H(result.start) - H(padding))
        end   == H(result.end) + H(padding)
        center == (H(result.start) + H(result.end)) \div 2
    IN  IF end - start > H(max_dur)
        THEN [start |-> Max(0, center - H(max_dur) \div 2),
              end   |-> center + H(max_dur)]
        ELSE [start |-> start, end |-> end]

\* the per-result padding is 3 seconds instead of 2
ResultTimeRange_WiderPadding(result, max_dur) ==
    LET start == Max(0, H(result.start) - H(padding + 1))
        end   == H(result.end) + H(padding + 1)
        center == (H(result.start) + H(result.end)) \div 2
    IN  IF end - start > H(max_dur)
        THEN [start |-> Max(0, center - H(max_dur) \div 2),
              end   |-> center + H(max_dur) \div 2]
        ELSE [start |-> start, end |-> end]
\* one iteration of the loop of create_snippet_from_query, api.py:551-557
ResultTimeRange(result, max_dur) ==
    LET start == Max(0, H(result.start) - H(padding))
        end   == H(result.end) + H(padding)
        center == (H(result.start) + H(result.end)) \div 2
    IN  IF end - start > H(max_dur)
        THEN [start |-> Max(0, center - H(max_dur) \div 2),
              end   |-> center + H(max_dur) \div 2]
        ELSE [start |-> start, end |-> end]

Spans == { t \in [start : 0..MaxSpanTime, end : 0..MaxSpanTime] : t.start <= t.end }

SpanLists == UNION { [1..n -> Spans] : n \in 1..MaxSpans }

WindowInit ==
    /\ ChunkerUnused
    /\ EngineUnused
    /\ timestamps \in SpanLists
    /\ max_duration \in 0..MaxDuration
    /\ window = WindowIdle

\* the snippet branch of handle_user_query with a non-empty timestamps list
SnippetStrategy ==
    /\ window.path = "none"
    /\ window' = [path |-> "strategy",
                  ranges |-> << SnippetTimeRange(timestamps, max_duration) >>]
    /\ UNCHANGED <<chunkerVars, engineVars, timestamps, max_duration>>

\* the per-result loop of /snippet/query over a non-empty result list
SnippetQueryBatch ==
    /\ window.path = "none"
    /\ window' = [path |-> "batch",
                  ranges |-> [i \in 1..Len(timestamps) |->
                                 ResultTimeRange(timestamps[i], max_duration)]]
    /\ UNCHANGED <<chunkerVars, engineVars, timestamps, max_duration>>

WindowNext == SnippetStrategy \/ SnippetQueryBatch

WindowSpec == WindowInit /\ [][WindowNext]_vars

(***************************************************************************)
(* The engine, rag_engine.py.                                              *)
(*                                                                         *)
(* A collection name is a sequence of tokens: the literal "transcript_",   *)
(* the literal "video_", a digest, or a caller-chosen piece that contains  *)
(* neither.  NoName (the empty name) stands for None and for "": the code  *)
(* tests names and ids by truth value only.                                *)
(* A distance is a whole number of ticks, DistUnit ticks being the         *)
(* distance 1.0; a relevance is in the same unit.                          *)
(***************************************************************************)
FullTextPrefixLen == 1000
DefaultMinChunkLength == 100

MaxResults == 2
DistUnit == 10

(***************************************************************************)
(* The videos of the model.  A and B open with the same 1000 characters    *)
(* (the same intro); A ends there, B goes on.  C is a short clip.          *)
(* With the default threshold A and C give one chunk and B gives two, the  *)
(* second merging two segments.                                            *)
(***************************************************************************)
Videos == {"A", "B", "C"}

\* the transcript the transcriber returns for each video
Transcripts ==
    [v \in Videos |->
      IF v = "A" THEN
          MakeTranscript(<< [start |-> 0, end |-> 5, text |-> Str("a", FullTextPrefixLen)] >>)
      ELSE IF v = "B" THEN
          MakeTranscript(<< [start |-> 0, end |-> 5, text |-> Str("a", FullTextPrefixLen)],
                            [start |-> 5, end |-> 7, text |-> Str("c", DefaultMinChunkLength - 1)],
                            [start |-> 7, end |-> 9, text |-> Str("d", 1)] >>)
      ELSE
          MakeTranscript(<< [start |-> 0, end |-> 3, text |-> Str("c", 1)] >>)]

TranscriptOf(v) == Transcripts[v]

\* the videos handed to the engine directly
EngineVideos == {"A", "B"}

\* hashlib.md5(...).hexdigest()[:12]: a digest token per distinct input, the
\* same token for equal inputs (no two different inputs of the model collide)
PrefixTable == << Prefix(TranscriptOf("A").full_text, FullTextPrefixLen),
                  Prefix(TranscriptOf("B").full_text, FullTextPrefixLen),
                  Prefix(TranscriptOf("C").full_text, FullTextPrefixLen) >>

Md5Hex12(text) ==
    ToString(CHOOSE i \in 1..Len(PrefixTable) :
                /\ PrefixTable[i] = text
                /\ \A j \in 1..(i - 1) : PrefixTable[j] # text)

\* rag_engine.py:107-109
DerivedVideoId(t) == << "video_", Md5Hex12(Prefix(t.full_text, FullTextPrefixLen)) >>

\* rag_engine.py:111
CollectionNameOf(video_id) == << "transcript_" >> \o video_id

\* collection_name.replace("transcript_", ""), rag_engine.py:279: every
\* occurrence of the literal goes, not only the leading one
ExtractVideoId(collection_name) ==
    SelectSeq(collection_name, LAMBDA tok : tok # "transcript_")

ExplicitIds == { << "x" >>, << "transcript_", "x" >> }

DerivedName(v) == CollectionNameOf(DerivedVideoId(TranscriptOf(v)))

\* the names the engine is called with: every one of them is the name
\* index_transcript returns for some call of the model
Names ==
    { DerivedName(v) : v \in EngineVideos } \cup { CollectionNameOf(id) : id \in ExplicitIds }

(***************************************************************************)
(* The vector store: what the code uses of a chroma collection.            *)
(***************************************************************************)
NoMembers == << >>

batch_size == 100

\* the embedding service, by its contract: one vector per input text, in
\* input order; the vector of a text is determined by the text
VectorOf(text) == [of |-> text]

Embed(batch) == [k \in 1..Len(batch) |-> VectorOf(batch[k])]

\* each batch's vectors are put in front of the ones already collected
EmbedBatch_Prepended(texts, i, all_embeddings) ==
    Embed(SubSeq(texts, i + 1, Min(i + batch_size, Len(texts)))) \o all_embeddings

\* one iteration of the loop of generate_embeddings, rag_engine.py:45-51:
\* batch = texts[i : i + batch_size], one request, extend
EmbedBatch(texts, i, all_embeddings) ==
    all_embeddings \o Embed(SubSeq(texts, i + 1, Min(i + batch_size, Len(texts))))

\* for i in range(0, len(texts), batch_size), rag_engine.py:44
RECURSIVE EmbedLoop(_, _, _)
EmbedLoop(texts, i, all_embeddings) ==
    IF i >= Len(texts) THEN all_embeddings
    ELSE EmbedLoop(texts, i + batch_size, EmbedBatch(texts, i, all_embeddings))

\* generate_embeddings(texts) when every request is answered
generate_embeddings(texts) == EmbedLoop(texts, 0, <<>>)

\* documents, metadatas, ids and embeddings as index_transcript prepares
\* them (rag_engine.py:128-133) and collection.add stores them
\* (rag_engine.py:136-141): the member of id chunk_i is made of the i-th
\* element of each of the four lists
ItemsOf(chunks) ==
    LET documents  == [k \in 1..Len(chunks) |-> chunks[k].text]
        metadatas  == [k \in 1..Len(chunks) |->
                          [start |-> chunks[k].start, end |-> chunks[k].end]]
        embeddings == generate_embeddings(documents)
    IN  [i \in 0..(Len(chunks) - 1) |->
            [text |-> documents[i + 1], embedding |-> embeddings[i + 1],
             start |-> metadatas[i + 1].start, end |-> metadatas[i + 1].end]]

\* collection.add: an id already present keeps its member
CollectionAdd(members, items) ==
    [i \in (DOMAIN members) \cup (DOMAIN items) |->
        IF i \in DOMAIN members THEN members[i] ELSE items[i]]

\* the member chunk_0 survives the clearing step
ClearCollection_KeepsFirst(members) ==
    [i \in (DOMAIN members) \cap {0} |-> members[i]]

\* the clearing step is left out
ClearCollection_Skipped(members) == members

\* existing = collection.get(); collection.delete(ids=existing["ids"]),
\* rag_engine.py:120-122
ClearCollection(members) == NoMembers

WithCollection(colls, name, members) ==
    [n \in (DOMAIN colls) \cup {name} |-> IF n = name THEN members ELSE colls[n]]

WithoutCollection(colls, name) ==
    [n \in (DOMAIN colls) \ {name} |-> colls[n]]

\* the distances the store may report under the cosine metric: 0 (same
\* direction), 1 (orthogonal), 2 (opposite), and one tick below 0 (rounding
\* drift of a distance that should be 0)
Distances == { 0 - 1, 0, DistUnit, 2 * DistUnit }

\* collection.query(..., n_results): the n_results nearest members (all of
\* them when there are fewer), nearest first, each with its distance, the
\* distances being among the given ones
QueryHitsAt(members, n_results, distances) ==
    LET k == Min(n_results, Cardinality(DOMAIN members))
    IN  { [i \in 1..k |->
              [id |-> h[i].id, document |-> members[h[i].id].text,
               start |-> members[h[i].id].start, end |-> members[h[i].id].end,
               distance |-> h[i].distance]] :
          h \in { g \in [1..k -> [id : DOMAIN members, distance : distances]] :
                    /\ \A i, j \in 1..k : i # j => g[i].id # g[j].id
                    /\ \A i \in 1..(k - 1) : g[i].distance <= g[i + 1].distance } }

QueryHits(members, n_results) == QueryHitsAt(members, n_results, Distances)

\* generate_embeddings, rag_engine.py:41-53: the number of requests sent to
\* the embedding service for n texts, one per batch; an unanswered request
\* raises, so no further one is sent
EmbeddingRequests(n, embed_ok) ==
    IF n = 0 THEN 0
    ELSE IF embed_ok THEN (n + batch_size - 1) \div batch_size
    ELSE 1

(***************************************************************************)
(* index_transcript, rag_engine.py:104-144.  embed_ok says whether the     *)
(* embedding service answers.  The result is the state the call leaves,    *)
(* how it ended (returned a name, or raised) and the number of requests it *)
(* sent to the embedding service.                                          *)
(***************************************************************************)
index_transcript(colls, cur, t, video_id, embed_ok) ==
    LET vid    == IF video_id = NoName THEN DerivedVideoId(t) ELSE video_id
        name   == CollectionNameOf(vid)
        got    == IF name \in DOMAIN colls THEN colls[name] ELSE NoMembers
        clear  == ClearCollection(got)
        chunks == chunk_transcript(t, DefaultMinChunkLength)
        calls  == EmbeddingRequests(Len(chunks), embed_ok)
    IN  IF chunks # <<>> /\ ~embed_ok
        THEN [collections |-> WithCollection(colls, name, clear), current |-> cur,
              raised |-> "embedding", name |-> name, embed_calls |-> calls]
        ELSE IF chunks = <<>>
        THEN [collections |-> WithCollection(colls, name, clear), current |-> cur,
              raised |-> "add", name |-> name, embed_calls |-> calls]
        ELSE [collections |-> WithCollection(colls, name,
                                  CollectionAdd(clear, ItemsOf(chunks))),
              current |-> name, raised |-> "none", name |-> name,
              embed_calls |-> calls]

\* results come back farthest first
FormatResults_Reversed(hits) ==
    [i \in 1..Len(hits) |->
        [text |-> hits[Len(hits) + 1 - i].document,
         start |-> hits[Len(hits) + 1 - i].start,
         end |-> hits[Len(hits) + 1 - i].end,
         relevance |-> DistUnit - hits[Len(hits) + 1 - i].distance]]

\* rag_engine.py:178-185
FormatResults(hits) ==
    [i \in 1..Len(hits) |->
        [text |-> hits[i].document, start |-> hits[i].start, end |-> hits[i].end,
         relevance |-> DistUnit - hits[i].distance]]

\* which collection search reads, rag_engine.py:161
SearchName(collection_name, cur) ==
    IF collection_name # NoName THEN collection_name ELSE cur

\* an empty hit list is treated as an error
search_RaisesOnEmpty(colls, cur, collection_name, embed_ok, hits) ==
    LET name == SearchName(collection_name, cur)
    IN  IF name = NoName THEN [raised |-> "ValueError", results |-> <<>>]
        ELSE IF name \notin DOMAIN colls THEN [raised |-> "not_found", results |-> <<>>]
        ELSE IF ~embed_ok THEN [raised |-> "embedding", results |-> <<>>]
        ELSE IF hits = <<>> THEN [raised |-> "IndexError", results |-> <<>>]
        ELSE [raised |-> "none", results |-> FormatResults(hits)]

\* search, rag_engine.py:159-187, given the hits the store answers with
search(colls, cur, collection_name, embed_ok, hits) ==
    LET name == SearchName(collection_name, cur)
    IN  IF name = NoName THEN [raised |-> "ValueError", results |-> <<>>]
        ELSE IF name \notin DOMAIN colls THEN [raised |-> "not_found", results |-> <<>>]
        ELSE IF ~embed_ok THEN [raised |-> "embedding", results |-> <<>>]
        ELSE [raised |-> "none", results |-> FormatResults(hits)]

\* collection_exists, rag_engine.py:240-246.  store_ok says whether the store
\* answers the get_collection request; whatever it raises (the name is not
\* held, or the request failed) is caught and gives False.
collection_exists(colls, collection_name, store_ok) ==
    store_ok /\ collection_name \in DOMAIN colls

\* the existence shortcut is left out: a transcript with segments is always
\* indexed again
ensure_collection_indexed_AlwaysReindexes(colls, cur, collection_name, opt_transcript, embed_ok, store_ok) ==
    IF opt_transcript = <<>> \/ opt_transcript[1].segments = <<>>
    THEN IF collection_exists(colls, collection_name, store_ok)
         THEN [collections |-> colls, current |-> collection_name, raised |-> "none",
               ret |-> TRUE, name |-> collection_name, embed_calls |-> 0]
         ELSE [collections |-> colls, current |-> cur, raised |-> "none",
               ret |-> FALSE, name |-> NoName, embed_calls |-> 0]
    ELSE LET r == index_transcript(colls, cur, opt_transcript[1],
                                   ExtractVideoId(collection_name), embed_ok)
         IN  [collections |-> r.collections, current |-> r.current,
              raised |-> r.raised, ret |-> (r.raised = "none"), name |-> r.name,
              embed_calls |-> r.embed_calls]

\* without a transcript an empty collection is created and reported as indexed
ensure_collection_indexed_CreatesEmpty(colls, cur, collection_name, opt_transcript, embed_ok, store_ok) ==
    IF collection_exists(colls, collection_name, store_ok)
    THEN [collections |-> colls, current |-> collection_name, raised |-> "none",
          ret |-> TRUE, name |-> collection_name, embed_calls |-> 0]
    ELSE IF opt_transcript = <<>> \/ opt_transcript[1].segments = <<>>
    THEN [collections |-> WithCollection(colls, collection_name, NoMembers),
          current |-> collection_name, raised |-> "none",
          ret |-> TRUE, name |-> collection_name, embed_calls |-> 0]
    ELSE LET r == index_transcript(colls, cur, opt_transcript[1],
                                   ExtractVideoId(collection_name), embed_ok)
         IN  [collections |-> r.collections, current |-> r.current,
              raised |-> r.raised, ret |-> (r.raised = "none"), name |-> r.name,
              embed_calls |-> r.embed_calls]

\* an existing collection is found but the pointer is left where it was
ensure_collection_indexed_KeepsPointer(colls, cur, collection_name, opt_transcript, embed_ok, store_ok) ==
    IF collection_exists(colls, collection_name, store_ok)
    THEN [collections |-> colls, current |-> cur, raised |-> "none",
          ret |-> TRUE, name |-> collection_name, embed_calls |-> 0]
    ELSE IF opt_transcript = <<>> \/ opt_transcript[1].segments = <<>>
    THEN [collections |-> colls, current |-> cur, raised |-> "none",
          ret |-> FALSE, name |-> NoName, embed_calls |-> 0]
    ELSE LET r == index_transcript(colls, cur, opt_transcript[1],
                                   ExtractVideoId(collection_name), embed_ok)
         IN  [collections |-> r.collections, current |-> r.current,
              raised |-> r.raised, ret |-> (r.raised = "none"), name |-> r.name,
              embed_calls |-> r.embed_calls]

\* ensure_collection_indexed, rag_engine.py:268-284.  opt_transcript is << >> for
\* None and << t >> for a transcript t.  store_ok is about the existence check
\* only: the requests index_transcript sends to the store afterwards are
\* answered.
ensure_collection_indexed(colls, cur, collection_name, opt_transcript, embed_ok, store_ok) ==
    IF collection_exists(colls, collection_name, store_ok)
    THEN [collections |-> colls, current |-> collection_name, raised |-> "none",
          ret |-> TRUE, name |-> collection_name, embed_calls |-> 0]
    ELSE IF opt_transcript = <<>> \/ opt_transcript[1].segments = <<>>
    THEN [collections |-> colls, current |-> cur, raised |-> "none",
          ret |-> FALSE, name |-> NoName, embed_calls |-> 0]
    ELSE LET r == index_transcript(colls, cur, opt_transcript[1],
                                   ExtractVideoId(collection_name), embed_ok)
         IN  [collections |-> r.collections, current |-> r.current,
              raised |-> r.raised, ret |-> (r.raised = "none"), name |-> r.name,
              embed_calls |-> r.embed_calls]

(***************************************************************************)
(* The engine as a state machine: calls arrive one at a time, in any order *)
(* and with any arguments of the model.                                    *)
(***************************************************************************)
MemberCount(colls, name) ==
    IF name \in DOMAIN colls THEN Cardinality(DOMAIN colls[name]) ELSE 0

EngineInit ==
    /\ ChunkerUnused
    /\ WindowUnused
    /\ EngineUnused

\* index_transcript(transcript, video_id); /process/url and /process/upload
\* call it without a video_id (api.py:206, 271)
IndexTranscript ==
    \E v \in EngineVideos, video_id \in {NoName} \cup ExplicitIds, embed_ok \in BOOLEAN :
        \E r \in { index_transcript(collections, current, TranscriptOf(v),
                                    video_id, embed_ok) } :
            /\ collections' = r.collections
            /\ current' = r.current
            /\ lastOp' = [Call EXCEPT !.op = "index_transcript", !.video = v,
                              !.video_id = video_id, !.name = r.name,
                              !.has_transcript = TRUE, !.embed_ok = embed_ok,
                              !.embed_calls = r.embed_calls,
                              !.existed = (r.name \in DOMAIN collections),
                              !.before_count = MemberCount(collections, r.name),
                              !.raised = r.raised,
                              !.ret_name = IF r.raised = "none" THEN r.name ELSE NoName]
            /\ UNCHANGED <<dbVars, chunkerVars, windowVars, running>>

\* search(query, n_results, collection_name)
Search ==
    \E collection_name \in {NoName} \cup Names, n_results \in 1..MaxResults,
       embed_ok \in BOOLEAN :
        LET name == SearchName(collection_name, current)
            answers == IF name \in DOMAIN collections /\ embed_ok
                       THEN QueryHits(collections[name], n_results) ELSE { <<>> }
        IN  \E hits \in answers :
              \E r \in { search(collections, current, collection_name, embed_ok, hits) } :
                  /\ lastOp' = [Call EXCEPT !.op = "search", !.name = name,
                                    !.n_results = n_results, !.embed_ok = embed_ok,
                                    !.embed_calls = IF name \in DOMAIN collections
                                                    THEN 1 ELSE 0,
                                    !.existed = (name \in DOMAIN collections),
                                    !.before_count = MemberCount(collections, name),
                                    !.raised = r.raised, !.hits = hits,
                                    !.results = r.results]
                  /\ UNCHANGED <<collections, current, dbVars,
                                 chunkerVars, windowVars, running>>

\* the pointer is left on the deleted collection
DeleteCollection_KeepsPointer ==
    \E collection_name \in Names :
        /\ collections' = WithoutCollection(collections, collection_name)
        /\ current' = current
        /\ lastOp' = [Call EXCEPT !.op = "delete_collection", !.name = collection_name,
                          !.current_before = current,
                          !.existed = (collection_name \in DOMAIN collections),
                          !.before_count = MemberCount(collections, collection_name),
                          !.raised = IF collection_name \in DOMAIN collections
                                     THEN "none" ELSE "not_found"]
        /\ UNCHANGED <<dbVars, chunkerVars, windowVars, running>>

\* delete_collection, rag_engine.py:234-237; the store raises for a name it
\* does not hold, and the pointer is then left alone
DeleteCollection ==
    \E collection_name \in Names :
        /\ collections' = WithoutCollection(collections, collection_name)
        /\ current' = IF collection_name \in DOMAIN collections /\ current = collection_name
                      THEN NoName ELSE current
        /\ lastOp' = [Call EXCEPT !.op = "delete_collection", !.name = collection_name,
                          !.current_before = current,
                          !.existed = (collection_name \in DOMAIN collections),
                          !.before_count = MemberCount(collections, collection_name),
                          !.raised = IF collection_name \in DOMAIN collections
                                     THEN "none" ELSE "not_found"]
        /\ UNCHANGED <<dbVars, chunkerVars, windowVars, running>>

\* set_current_collection, rag_engine.py:251-254
SetCurrentCollection ==
    \E collection_name \in Names :
        /\ current' = IF collection_name \in DOMAIN collections
                      THEN collection_name ELSE current
        /\ lastOp' = [Call EXCEPT !.op = "set_current_collection",
                          !.name = collection_name,
                          !.existed = (collection_name \in DOMAIN collections),
                          !.raised = IF collection_name \in DOMAIN collections
                                     THEN "none" ELSE "not_found"]
        /\ UNCHANGED <<collections, dbVars, chunkerVars, windowVars, running>>

\* the transcripts a caller may hand to ensure_collection_indexed: None, a
\* transcript without segments, or the transcript of a video
OptTranscriptOf(k) ==
    IF k = "None" THEN <<>>
    ELSE IF k = "empty" THEN << MakeTranscript(<<>>) >>
    ELSE << TranscriptOf(k) >>

\* ensure_collection_indexed(collection_name, transcript)
EnsureCollectionIndexed ==
    \E collection_name \in Names, k \in {"None", "empty"} \cup EngineVideos,
       embed_ok \in BOOLEAN, store_ok \in BOOLEAN :
        \E opt \in { OptTranscriptOf(k) } :
        \E r \in { ensure_collection_indexed(collections, current, collection_name,
                                             opt, embed_ok, store_ok) } :
            /\ collections' = r.collections
            /\ current' = r.current
            /\ lastOp' = [Call EXCEPT !.op = "ensure_collection_indexed",
                              !.name = collection_name, !.video = k,
                              !.has_transcript = (opt # <<>> /\ opt[1].segments # <<>>),
                              !.embed_ok = embed_ok, !.store_ok = store_ok,
                              !.embed_calls = r.embed_calls,
                              !.existed = (collection_name \in DOMAIN collections),
                              !.before_count = MemberCount(collections, collection_name),
                              !.raised = r.raised, !.ret_bool = r.ret,
                              !.ret_name = r.name]
            /\ UNCHANGED <<dbVars, chunkerVars, windowVars, running>>

Next ==
    \/ IndexTranscript
    \/ Search
    \/ DeleteCollection
    \/ SetCurrentCollection
    \/ EnsureCollectionIndexed

Spec == EngineInit /\ [][Next]_vars

(***************************************************************************)
(* Indexing of long transcripts: index_transcript called once, with an     *)
(* explicit video id, on a transcript of up to MaxTexts segments that are  *)
(* each a chunk of their own, so that generate_embeddings needs zero, one, *)
(* two or three batches.                                                   *)
(***************************************************************************)
MaxTexts == 201

\* n segments of one second each, the i-th one of DefaultMinChunkLength + i
\* characters: no two segments have the same text or the same span
LongTranscript(n) ==
    MakeTranscript([i \in 1..n |->
        [start |-> i - 1, end |-> i, text |-> Str("a", DefaultMinChunkLength + i)]])

LongVideoId == << "x" >>

LongIndexInit ==
    /\ WindowUnused
    /\ EngineUnused
    /\ transcript \in { LongTranscript(n) : n \in 0..MaxTexts }
    /\ min_chunk_length = DefaultMinChunkLength
    /\ chunked = NotCalled

\* index_transcript(transcript, video_id); chunked keeps what its call of
\* chunk_transcript returned (rag_engine.py:125)
IndexLongTranscript ==
    /\ lastOp.op = "none"
    /\ \E embed_ok \in BOOLEAN :
        \E r \in { index_transcript(collections, current, transcript,
                                    LongVideoId, embed_ok) } :
            /\ collections' = r.collections
            /\ current' = r.current
            /\ chunked' = Returned(ChunkRun(transcript, min_chunk_length))
            /\ lastOp' = [Call EXCEPT !.op = "index_transcript",
                              !.video_id = LongVideoId, !.name = r.name,
                              !.has_transcript = TRUE, !.embed_ok = embed_ok,
                              !.embed_calls = r.embed_calls,
                              !.raised = r.raised,
                              !.ret_name = IF r.raised = "none" THEN r.name ELSE NoName]
    /\ UNCHANGED <<transcript, min_chunk_length, dbVars, windowVars, running>>

LongIndexNext == IndexLongTranscript

LongIndexSpec == LongIndexInit /\ [][LongIndexNext]_vars

(***************************************************************************)
(* The query handler, query_handler.py.                                    *)
(*                                                                         *)
(* What detect_intent gets back from the language model: no answer at all  *)
(* (answered = FALSE: the service is unreachable, or the content is not    *)
(* JSON), or a JSON object that may lack "intent" or "topic", whose        *)
(* "parameters" may be missing, and whose "max_duration" may be absent,    *)
(* null or a number.  The classifier is told to answer null when the user  *)
(* names no duration (query_handler.py:45).                                *)
(***************************************************************************)
Intents == {"search", "question", "snippet", "summary", "keypoints"}

DefaultMaxDuration == 60
SearchTopK == 5
ContextTopK == 5
SnippetTopK == 3

Output == [answered |-> TRUE, has_intent |-> TRUE, intent |-> "-", has_topic |-> TRUE,
           parameters |-> "null", max_duration |-> 0]

ClassifierOutputs ==
    { [Output EXCEPT !.intent = i] : i \in Intents \cup {"chat"} }
    \cup { [Output EXCEPT !.intent = "snippet", !.parameters = k] :
              k \in {"missing", "absent"} }
    \cup { [Output EXCEPT !.intent = "snippet", !.parameters = "number",
                          !.max_duration = MaxDuration] }
    \cup { [Output EXCEPT !.answered = FALSE],
           [Output EXCEPT !.has_intent = FALSE],
           [Output EXCEPT !.intent = "search", !.has_topic = FALSE] }

\* how many results the branch of an intent asks the engine for
ResultsWanted(intent) ==
    IF intent = "search" THEN SearchTopK
    ELSE IF intent = "question" THEN ContextTopK
    ELSE IF intent = "snippet" THEN SnippetTopK
    ELSE 0

QueryResult == [raised |-> "none", intent |-> "-", has_response |-> FALSE,
                response |-> "-", results |-> <<>>, time_range |-> <<>>,
                generation_calls |-> 0, searched |-> FALSE]

\* handle_user_query, query_handler.py:238-296, called without a video_path.
\* out is what the classifier call gets back, opt_transcript is << >> for None
\* and << t >> for a transcript, gen_ok says whether the generation call (the
\* answer, the summary, the key points) is answered, hits is what the store
\* answers to the query of the branch.  has_response says whether the returned
\* dictionary has the key "response".
handle_user_query(colls, cur, out, opt_transcript, embed_ok, gen_ok, hits) ==
    LET s == search(colls, cur, NoName, embed_ok, hits)
        r == [QueryResult EXCEPT !.intent = out.intent,
                                 !.searched = (ResultsWanted(out.intent) > 0)]
    IN  IF ~out.answered THEN [QueryResult EXCEPT !.raised = "llm"]
        ELSE IF ~out.has_intent \/ ~out.has_topic
        THEN [QueryResult EXCEPT !.raised = "KeyError"]
        ELSE IF out.intent = "search" THEN
            IF s.raised # "none" THEN [r EXCEPT !.raised = s.raised]
            ELSE [r EXCEPT !.results = s.results,
                           !.has_response = TRUE, !.response = "found_segments"]
        ELSE IF out.intent = "question" THEN
            IF s.raised # "none" THEN [r EXCEPT !.raised = s.raised]
            ELSE IF ~gen_ok
            THEN [r EXCEPT !.raised = "llm", !.generation_calls = 1]
            ELSE [r EXCEPT !.generation_calls = 1,
                           !.has_response = TRUE, !.response = "answer"]
        ELSE IF out.intent = "snippet" THEN
            IF s.raised # "none" THEN [r EXCEPT !.raised = s.raised]
            ELSE IF s.results = <<>>
            THEN [r EXCEPT !.has_response = TRUE,
                           !.response = "no_content"]
            ELSE IF out.parameters = "missing"
            THEN [r EXCEPT !.raised = "KeyError"]
            ELSE IF out.parameters = "null"
            THEN [r EXCEPT !.raised = "TypeError"]
            ELSE [r EXCEPT !.results = s.results,
                           !.has_response = TRUE, !.response = "found_content",
                           !.time_range =
                               << SnippetTimeRange(s.results,
                                      IF out.parameters = "absent"
                                      THEN DefaultMaxDuration
                                      ELSE out.max_duration) >>]
        ELSE IF out.intent = "summary" THEN
            IF opt_transcript = <<>>
            THEN [r EXCEPT !.has_response = TRUE, !.response = "transcript_required"]
            ELSE IF ~gen_ok THEN [r EXCEPT !.raised = "llm", !.generation_calls = 1]
            ELSE [r EXCEPT !.generation_calls = 1, !.has_response = TRUE,
                           !.response = "summary"]
        ELSE IF out.intent = "keypoints" THEN
            IF opt_transcript = <<>>
            THEN [r EXCEPT !.has_response = TRUE, !.response = "transcript_required"]
            ELSE IF ~gen_ok THEN [r EXCEPT !.raised = "llm", !.generation_calls = 1]
            ELSE [r EXCEPT !.generation_calls = 1, !.has_response = TRUE,
                           !.response = "found_key_points"]
        ELSE r

\* the answers the store may give to the query of a branch: none when the
\* branch does not search or the search raises before the store is asked.
\* The handlers above the engine never look at a distance except to pass the
\* relevance on, so here every hit is at distance 0 and only the order varies.
HitsFor(colls, cur, n_results, embed_ok) ==
    IF n_results > 0 /\ cur \in DOMAIN colls /\ embed_ok
    THEN QueryHitsAt(colls[cur], n_results, {0})
    ELSE { <<>> }

\* a direct call handle_user_query(user_query, transcript) over the engine
HandleUserQuery ==
    \E out \in ClassifierOutputs, k \in {"None", "A"},
       embed_ok \in BOOLEAN, gen_ok \in BOOLEAN :
        \E opt \in { OptTranscriptOf(k) } :
        \E hits \in HitsFor(collections, current, ResultsWanted(out.intent), embed_ok) :
        \E r \in { handle_user_query(collections, current, out, opt,
                                     embed_ok, gen_ok, hits) } :
            /\ lastOp' = [Call EXCEPT !.op = "handle_user_query", !.video = k,
                              !.has_transcript = (opt # <<>>),
                              !.name = SearchName(NoName, current),
                              !.intent = r.intent, !.parameters = out.parameters,
                              !.embed_ok = embed_ok,
                              !.raised = r.raised, !.hits = hits,
                              !.results = r.results,
                              !.has_response = r.has_response,
                              !.response = r.response,
                              !.time_range = r.time_range,
                              !.generation_calls = r.generation_calls]
            /\ UNCHANGED <<collections, current, dbVars, chunkerVars, windowVars, running>>

QueryNext == IndexTranscript \/ HandleUserQuery

QuerySpec == EngineInit /\ [][QueryNext]_vars

(***************************************************************************)
(* The database, database.py.  A session id is the position of the row in  *)
(* sessions (ids are fresh: uuid4); a deleted row leaves NoSession behind. *)
(* A session row carries its transcript row, saved saying whether that row *)
(* was written.  A message id is one more than the greatest id in the      *)
(* table; ids are only ever compared for order.                            *)
(***************************************************************************)
MaxSessions == 2
MaxMessages == 2
MaxHistory == 12
HistoryLimit == 10

Users == {"u1", "u2"}
ConversationIds == {"c1", "c2"}

NoSession == [user_id |-> "-", collection_name |-> NoName,
              transcript |-> MakeTranscript(<<>>), saved |-> FALSE, live |-> FALSE]

\* get_session(session_id, user_id), database.py:112-132: << >> for None
get_session(sess, session_id, user_id) ==
    IF /\ session_id \in 1..Len(sess)
       /\ sess[session_id].live
       /\ sess[session_id].user_id = user_id
    THEN << sess[session_id] >>
    ELSE <<>>

\* session.get("transcript"): get_session adds the key only when the
\* transcript row exists, database.py:128-130
SessionTranscript(row) == IF row.saved THEN << row.transcript >> ELSE <<>>

\* create_conversation_with_id, database.py:212-218: INSERT OR IGNORE
create_conversation_with_id(convs, conversation_id, session_id, user_id) ==
    IF conversation_id \in DOMAIN convs THEN convs
    ELSE [c \in (DOMAIN convs) \cup {conversation_id} |->
            IF c = conversation_id
            THEN [session_id |-> session_id, user_id |-> user_id]
            ELSE convs[c]]

\* rows[:n]
Take(rows, n) == SubSeq(rows, 1, Min(n, Len(rows)))

\* get_messages, database.py:269-276:
\* WHERE conversation_id = ? ORDER BY id ASC LIMIT ?
get_messages(msgs, conversation_id, limit) ==
    Take(SelectSeq(msgs, LAMBDA m : m.conversation_id = conversation_id), limit)

\* the new row is put before the rows of the table
add_message_First(msgs, conversation_id, role, content) ==
    << [id |-> IF msgs = <<>> THEN 1 ELSE msgs[Len(msgs)].id + 1,
        conversation_id |-> conversation_id,
        role |-> role, content |-> content] >> \o msgs

\* add_message, database.py:259-266
add_message(msgs, conversation_id, role, content) ==
    Append(msgs, [id |-> IF msgs = <<>> THEN 1 ELSE msgs[Len(msgs)].id + 1,
                  conversation_id |-> conversation_id,
                  role |-> role, content |-> content])

IdsOf(rows) == [i \in 1..Len(rows) |-> rows[i].id]

(***************************************************************************)
(* The request layer, api.py, over the engine and the database.  Requests  *)
(* are handled one at a time.  Within a request embed_ok says whether the  *)
(* embedding service answers and the store answers every request sent to   *)
(* it.  status is the HTTP status of the response.                         *)
(***************************************************************************)
\* POST /process/url, api.py:196-236: index the transcript under the derived
\* name, then store the session row (database.py:88-109) and its transcript
\* (database.py:159-175).  A failure of the indexing ends the request with
\* status 500 before any row is written; save_ok says whether the write of
\* the transcript row succeeds, and when it does not the request ends with
\* status 500 and the session row stays.
ProcessVideoUrlWith(user_id, v, embed_ok, save_ok) ==
    \E t \in { TranscriptOf(v) } :
    \E r \in { index_transcript(collections, current, t, NoName, embed_ok) } :
        /\ Len(sessions) < MaxSessions
        /\ collections' = r.collections
        /\ current' = r.current
        /\ sessions' = IF r.raised = "none"
                       THEN Append(sessions, [user_id |-> user_id,
                                              collection_name |-> r.name,
                                              transcript |-> t,
                                              saved |-> save_ok, live |-> TRUE])
                       ELSE sessions
        /\ lastOp' = [Call EXCEPT !.op = "process_video_url", !.video = v,
                          !.user_id = user_id,
                          !.session_id = IF r.raised = "none"
                                         THEN Len(sessions) + 1 ELSE 0,
                          !.name = r.name, !.has_transcript = TRUE,
                          !.embed_ok = embed_ok, !.embed_calls = r.embed_calls,
                          !.existed = (r.name \in DOMAIN collections),
                          !.before_count = MemberCount(collections, r.name),
                          !.raised = r.raised,
                          !.status = IF r.raised = "none" /\ save_ok THEN 200 ELSE 500,
                          !.ret_name = IF r.raised = "none" THEN r.name ELSE NoName]
        /\ UNCHANGED <<conversations, messages, chunkerVars, windowVars, running>>

\* requests to /process/url alone: any user, any video
ProcessVideoUrl ==
    \E user_id \in Users, v \in Videos, embed_ok \in BOOLEAN, save_ok \in BOOLEAN :
        ProcessVideoUrlWith(user_id, v, embed_ok, save_ok)

ApiNext == ProcessVideoUrl

ApiSpec == EngineInit /\ [][ApiNext]_vars

\* DELETE /sessions/{session_id}, api.py:730-775.  delete_collection is
\* wrapped in try/except: when the store does not hold the name nothing
\* happens.  Deleting the session row cascades to its transcript, its
\* conversations and their messages (database.py:41, 49, 58).
DeleteSession ==
    \E user_id \in Users, session_id \in 1..MaxSessions :
        \E found \in { get_session(sessions, session_id, user_id) } :
            IF found = <<>>
            THEN /\ lastOp' = [Call EXCEPT !.op = "delete_session", !.user_id = user_id,
                                   !.session_id = session_id, !.status = 404]
                 /\ UNCHANGED <<collections, current, dbVars, chunkerVars, windowVars, running>>
            ELSE LET name == found[1].collection_name
                     gone == { c \in DOMAIN conversations :
                                 conversations[c].session_id = session_id }
                 IN  /\ collections' = WithoutCollection(collections, name)
                     /\ current' = IF name \in DOMAIN collections /\ current = name
                                   THEN NoName ELSE current
                     /\ sessions' = [sessions EXCEPT ![session_id] = NoSession]
                     /\ conversations' = [c \in (DOMAIN conversations) \ gone |->
                                             conversations[c]]
                     /\ messages' = SelectSeq(messages,
                                         LAMBDA m : m.conversation_id \notin gone)
                     /\ lastOp' = [Call EXCEPT !.op = "delete_session",
                                       !.user_id = user_id, !.session_id = session_id,
                                       !.name = name,
                                       !.existed = (name \in DOMAIN collections),
                                       !.before_count = MemberCount(collections, name),
                                       !.status = 200]
                     /\ UNCHANGED <<chunkerVars, windowVars, running>>

\* the start of /search, /query and /snippet/query: the record of a request
\* for a session row, and of the call of ensure_collection_indexed it makes
\* (api.py:427, 491, 536) with outcome e
Guarded(op, user_id, session_id, row, embed_ok, e) ==
    [Call EXCEPT !.op = op, !.user_id = user_id, !.session_id = session_id,
                 !.name = row.collection_name, !.has_transcript = row.saved,
                 !.embed_ok = embed_ok, !.embed_calls = e.embed_calls,
                 !.existed = (row.collection_name \in DOMAIN collections),
                 !.before_count = MemberCount(collections, row.collection_name),
                 !.guarded = TRUE, !.current_before = current,
                 !.ret_bool = e.ret, !.ret_name = e.name,
                 !.raised = e.raised, !.status = 500]

\* POST /search, api.py:423-439
SearchVideo ==
    \E user_id \in Users, session_id \in 1..MaxSessions, n_results \in 1..MaxResults,
       embed_ok \in BOOLEAN :
        \E found \in { get_session(sessions, session_id, user_id) } :
            IF found = <<>>
            THEN /\ lastOp' = [Call EXCEPT !.op = "search_video", !.user_id = user_id,
                                   !.session_id = session_id, !.status = 404]
                 /\ UNCHANGED <<collections, current, dbVars, chunkerVars, windowVars, running>>
            ELSE \E e \in { ensure_collection_indexed(collections, current,
                                 found[1].collection_name, SessionTranscript(found[1]),
                                 embed_ok, TRUE) } :
                 \E g \in { Guarded("search_video", user_id, session_id, found[1],
                                     embed_ok, e) } :
                     /\ collections' = e.collections
                     /\ current' = e.current
                     /\ UNCHANGED <<dbVars, chunkerVars, windowVars, running>>
                     /\ IF e.raised # "none" \/ ~e.ret
                        THEN lastOp' = g
                        ELSE \E hits \in HitsFor(e.collections, e.current, n_results,
                                                 embed_ok) :
                             \E r \in { search(e.collections, e.current, NoName,
                                                embed_ok, hits) } :
                                 lastOp' = [g EXCEPT !.n_results = n_results,
                                               !.searched = TRUE,
                                               !.ret_name = SearchName(NoName, e.current),
                                               !.raised = r.raised,
                                               !.results = r.results,
                                               !.status = IF r.raised = "none"
                                                          THEN 200 ELSE 500]

\* POST /snippet/query, api.py:532-601, for a session made from a video URL
\* (links are returned, no file is written)
CreateSnippetFromQuery ==
    \E user_id \in Users, session_id \in 1..MaxSessions, n_results \in 1..MaxResults,
       max_dur \in {MaxDuration, DefaultMaxDuration}, embed_ok \in BOOLEAN :
        \E found \in { get_session(sessions, session_id, user_id) } :
            IF found = <<>>
            THEN /\ lastOp' = [Call EXCEPT !.op = "create_snippet_from_query",
                                   !.user_id = user_id, !.session_id = session_id,
                                   !.status = 404]
                 /\ UNCHANGED <<collections, current, dbVars, chunkerVars, windowVars, running>>
            ELSE \E e \in { ensure_collection_indexed(collections, current,
                                 found[1].collection_name, SessionTranscript(found[1]),
                                 embed_ok, TRUE) } :
                 \E g \in { Guarded("create_snippet_from_query", user_id, session_id,
                                     found[1], embed_ok, e) } :
                     /\ collections' = e.collections
                     /\ current' = e.current
                     /\ UNCHANGED <<dbVars, chunkerVars, windowVars, running>>
                     /\ IF e.raised # "none" \/ ~e.ret
                        THEN lastOp' = g
                        ELSE \E hits \in HitsFor(e.collections, e.current, n_results,
                                                 embed_ok) :
                             \E r \in { search(e.collections, e.current, NoName,
                                                embed_ok, hits) } :
                                 lastOp' = [g EXCEPT !.n_results = n_results,
                                               !.searched = TRUE,
                                               !.ret_name = SearchName(NoName, e.current),
                                               !.raised = r.raised,
                                               !.results = r.results,
                                               !.time_range =
                                                   [i \in 1..Len(r.results) |->
                                                      ResultTimeRange(r.results[i], max_dur)],
                                               !.status = IF r.raised # "none" THEN 500
                                                          ELSE IF r.results = <<>> THEN 404
                                                          ELSE 200]

\* POST /query, api.py:478-512, for given request fields and a given
\* behaviour of the services during the request.  The conversation is looked
\* up by its id alone and created for this session and user when no row has
\* that id.  session["transcript"] raises KeyError when the session has no
\* transcript row; that and every error of handle_user_query end the request
\* with status 500 before any message is added.  The assistant message is
\* result.get("response", str(result)).
HandleQueryWith(user_id, session_id, conversation_id, out, embed_ok, gen_ok) ==
    \E found \in { get_session(sessions, session_id, user_id) } :
        IF found = <<>>
        THEN /\ lastOp' = [Call EXCEPT !.op = "handle_query", !.user_id = user_id,
                               !.session_id = session_id,
                               !.conversation_id = conversation_id, !.status = 404]
             /\ UNCHANGED <<collections, current, dbVars, chunkerVars, windowVars, running>>
        ELSE \E e \in { ensure_collection_indexed(collections, current,
                             found[1].collection_name, SessionTranscript(found[1]),
                             embed_ok, TRUE) } :
             \E g \in { [Guarded("handle_query", user_id, session_id, found[1],
                                  embed_ok, e)
                            EXCEPT !.conversation_id = conversation_id] } :
                 /\ collections' = e.collections
                 /\ current' = e.current
                 /\ conversations' = create_conversation_with_id(conversations,
                                         conversation_id, session_id, user_id)
                 /\ UNCHANGED <<sessions, chunkerVars, windowVars, running>>
                 /\ IF e.raised # "none" \/ ~e.ret
                    THEN lastOp' = g /\ messages' = messages
                    ELSE \E history \in { get_messages(messages, conversation_id,
                                                       HistoryLimit) } :
                         \E h \in { [g EXCEPT !.history = IdsOf(history)] } :
                         IF ~found[1].saved
                         THEN lastOp' = [h EXCEPT !.raised = "KeyError"]
                              /\ messages' = messages
                         ELSE
                         \E hits \in HitsFor(e.collections, e.current,
                                             ResultsWanted(out.intent), embed_ok) :
                         \E r \in { handle_user_query(e.collections, e.current, out,
                                         << found[1].transcript >>, embed_ok, gen_ok,
                                         hits) } :
                             /\ lastOp' = [h EXCEPT !.classified = TRUE, !.output = out,
                                               !.intent = r.intent,
                                               !.parameters = out.parameters,
                                               !.searched = r.searched,
                                               !.ret_name = SearchName(NoName, e.current),
                                               !.raised = r.raised,
                                               !.results = r.results,
                                               !.has_response = r.has_response,
                                               !.response = r.response,
                                               !.time_range = r.time_range,
                                               !.generation_calls = r.generation_calls,
                                               !.appended = IF r.raised = "none"
                                                            THEN 2 ELSE 0,
                                               !.status = IF r.raised = "none"
                                                          THEN 200 ELSE 500]
                             /\ messages' =
                                   IF r.raised # "none" THEN messages
                                   ELSE add_message(
                                            add_message(messages, conversation_id,
                                                        "user", "query"),
                                            conversation_id, "assistant",
                                            IF r.has_response THEN r.response
                                            ELSE "str(result)")

\* /query with the classifier answering one of outs
HandleQueryAmong(outs) ==
    \E user_id \in Users, session_id \in 1..MaxSessions, out \in outs,
       embed_ok \in BOOLEAN, gen_ok \in BOOLEAN :
        /\ Len(messages) + 2 <= MaxMessages
        /\ HandleQueryWith(user_id, session_id, "c1", out, embed_ok, gen_ok)

(***************************************************************************)
(* RequestSpec: user u1 processes the video A any number of times (the     *)
(* transcript row may fail to be written); sessions are deleted, searched, *)
(* queried and cut into snippets by either user; the embedding service may *)
(* be down during a request; the classifier answers "question".            *)
(***************************************************************************)
ProcessVideoA ==
    \E save_ok \in BOOLEAN : ProcessVideoUrlWith("u1", "A", TRUE, save_ok)

HandleQuery == HandleQueryAmong({ [Output EXCEPT !.intent = "question"] })

RequestNext ==
    \/ ProcessVideoA
    \/ DeleteSession
    \/ SearchVideo
    \/ HandleQuery
    \/ CreateSnippetFromQuery

RequestSpec == EngineInit /\ [][RequestNext]_vars

(***************************************************************************)
(* SwitchSpec: user u1 processes the videos A and C, which get different   *)
(* collections; sessions are deleted, searched, queried and cut into       *)
(* snippets by either user, one request at a time.                         *)
(***************************************************************************)
SwitchVideos == {"A", "C"}

ProcessEitherVideo ==
    \E v \in SwitchVideos : ProcessVideoUrlWith("u1", v, TRUE, TRUE)

SwitchNext ==
    \/ ProcessEitherVideo
    \/ DeleteSession
    \/ SearchVideo
    \/ HandleQuery
    \/ CreateSnippetFromQuery

SwitchSpec == EngineInit /\ [][SwitchNext]_vars

(***************************************************************************)
(* InterleavedSpec: requests handled at the same time by the worker        *)
(* threads (the handlers are plain functions, which the server runs on a   *)
(* thread pool).  A step of a thread is one request to the store or one    *)
(* access to the pointer or the database, with the local computation       *)
(* around it.  User u1 sends /process/url requests for the videos of       *)
(* SwitchVideos and /search requests for the sessions that exist; every    *)
(* service answers.                                                        *)
(***************************************************************************)
\* /process/url arrives at an idle thread; index_transcript derives the
\* collection name (api.py:206, rag_engine.py:107-111)
StartProcess(t) ==
    \E v \in SwitchVideos :
        /\ running[t].pc \in {"idle", "done"}
        /\ Len(sessions) + Cardinality({ u \in Threads :
                               running[u].op = "process_video_url"
                               /\ running[u].pc # "done" }) < MaxSessions
        /\ running' = [running EXCEPT ![t] =
               [Idle EXCEPT !.op = "process_video_url", !.pc = "create",
                            !.video = v, !.user_id = "u1",
                            !.name = DerivedName(v),
                            !.before_count = MemberCount(collections, DerivedName(v))]]
        /\ UNCHANGED <<collections, current, dbVars, lastOp, chunkerVars, windowVars>>

\* chroma_client.get_or_create_collection, rag_engine.py:113-116
IndexCreate(t) ==
    /\ running[t].pc = "create"
    /\ collections' = IF running[t].name \in DOMAIN collections THEN collections
                      ELSE WithCollection(collections, running[t].name, NoMembers)
    /\ running' = [running EXCEPT ![t].pc = "clear"]
    /\ UNCHANGED <<current, dbVars, lastOp, chunkerVars, windowVars>>

\* collection.get() and collection.delete(ids), rag_engine.py:120-122;
\* cleared says that this clearing is the latest write to the collection
IndexClear(t) ==
    /\ running[t].pc = "clear"
    /\ collections' = WithCollection(collections, running[t].name,
                                     ClearCollection(collections[running[t].name]))
    /\ running' = [running EXCEPT ![t].pc = "add", ![t].cleared = TRUE]
    /\ UNCHANGED <<current, dbVars, lastOp, chunkerVars, windowVars>>

\* chunking, embedding and collection.add, rag_engine.py:125-141
IndexAdd(t) ==
    /\ running[t].pc = "add"
    /\ collections' = WithCollection(collections, running[t].name,
           CollectionAdd(collections[running[t].name],
                         ItemsOf(chunk_transcript(TranscriptOf(running[t].video),
                                                  DefaultMinChunkLength))))
    /\ running' = [u \in Threads |->
           IF u = t THEN [running[u] EXCEPT !.pc = "point", !.cleared = FALSE]
           ELSE IF running[u].name = running[t].name
           THEN [running[u] EXCEPT !.cleared = FALSE]
           ELSE running[u]]
    /\ UNCHANGED <<current, dbVars, lastOp, chunkerVars, windowVars>>

\* the pointer assignment and the return of index_transcript
\* (rag_engine.py:143-144), then the session and transcript rows and the
\* response (api.py:208-236)
IndexPoint(t) ==
    /\ running[t].pc = "point"
    /\ current' = running[t].name
    /\ sessions' = Append(sessions, [user_id |-> running[t].user_id,
                                     collection_name |-> running[t].name,
                                     transcript |-> TranscriptOf(running[t].video),
                                     saved |-> TRUE, live |-> TRUE])
    /\ running' = [running EXCEPT ![t].pc = "done", ![t].status = 200,
                                  ![t].session_id = Len(sessions) + 1]
    /\ UNCHANGED <<collections, conversations, messages, lastOp, chunkerVars, windowVars>>

\* /search arrives at an idle thread for a session of the user: get_session
\* and ensure_collection_indexed, api.py:423-428
StartSearch(t) ==
    \E session_id \in 1..MaxSessions :
    \E found \in { get_session(sessions, session_id, "u1") } :
        /\ running[t].pc \in {"idle", "done"}
        /\ found # <<>>
        /\ \E e \in { ensure_collection_indexed(collections, current,
                            found[1].collection_name, SessionTranscript(found[1]),
                            TRUE, TRUE) } :
              /\ collections' = e.collections
              /\ current' = e.current
              /\ running' = [running EXCEPT ![t] =
                     [Idle EXCEPT !.op = "search_video",
                                  !.pc = IF e.ret THEN "search" ELSE "done",
                                  !.user_id = "u1", !.session_id = session_id,
                                  !.name = found[1].collection_name,
                                  !.status = IF e.ret THEN 0 ELSE 500]]
        /\ UNCHANGED <<dbVars, lastOp, chunkerVars, windowVars>>

\* rag_engine.search(query, n_results) of the request, api.py:431; between
\* says that another thread's index_transcript has cleared the collection
\* this search reads and has not yet added to it, and that nothing was
\* written to the collection since
FinishSearch(t) ==
    /\ running[t].pc = "search"
    /\ \E hits \in HitsFor(collections, current, SearchTopK, TRUE) :
       \E r \in { search(collections, current, NoName, TRUE, hits) } :
          running' = [running EXCEPT ![t].pc = "done",
                         ![t].read_name = SearchName(NoName, current),
                         ![t].between =
                             \E u \in Threads \ {t} :
                                 /\ running[u].op = "process_video_url"
                                 /\ running[u].pc = "add"
                                 /\ running[u].cleared
                                 /\ running[u].name = SearchName(NoName, current),
                         ![t].results = r.results,
                         ![t].status = IF r.raised = "none" THEN 200 ELSE 500]
    /\ UNCHANGED <<collections, current, dbVars, lastOp, chunkerVars, windowVars>>

InterleavedNext ==
    \E t \in Threads :
        \/ StartProcess(t)
        \/ IndexCreate(t)
        \/ IndexClear(t)
        \/ IndexAdd(t)
        \/ IndexPoint(t)
        \/ StartSearch(t)
        \/ FinishSearch(t)

InterleavedSpec == EngineInit /\ [][InterleavedNext]_vars

(***************************************************************************)
(* IntentSpec: one video processed by u1 (any video; the transcript row    *)
(* may fail to be written), and queries about it by either user for which  *)
(* the classifier may answer anything.                                     *)
(***************************************************************************)
ProcessOneVideo ==
    /\ sessions = <<>>
    /\ \E v \in Videos, save_ok \in BOOLEAN : ProcessVideoUrlWith("u1", v, TRUE, save_ok)

HandleAnyQuery == HandleQueryAmong(ClassifierOutputs)

IntentNext == ProcessOneVideo \/ HandleAnyQuery

IntentSpec == EngineInit /\ [][IntentNext]_vars

(***************************************************************************)
(* ConversationSpec: one processed video and two conversations about it by *)
(* its owner; every request is answered, the classifier says "question",   *)
(* and the generation call may fail.                                       *)
(***************************************************************************)
ProcessFirstVideo ==
    /\ sessions = <<>>
    /\ ProcessVideoUrlWith("u1", "A", TRUE, TRUE)

AskQuestion ==
    \E conversation_id \in ConversationIds, gen_ok \in BOOLEAN :
        /\ Len(messages) <= MaxHistory
        /\ HandleQueryWith("u1", 1, conversation_id,
                           [Output EXCEPT !.intent = "question"], TRUE, gen_ok)

ConversationNext == ProcessFirstVideo \/ AskQuestion

ConversationSpec == EngineInit /\ [][ConversationNext]_vars

(***************************************************************************)
(* TwoUserSpec: each user processes one video (A for both: the sessions    *)
(* differ, the collection is shared) and asks questions in its own         *)
(* session, under any of the conversation ids; every service answers and   *)
(* the classifier says "question".                                         *)
(***************************************************************************)
OwnsSession(user_id) ==
    \E i \in 1..Len(sessions) : sessions[i].live /\ sessions[i].user_id = user_id

ProcessOwnVideo ==
    \E user_id \in Users :
        /\ ~OwnsSession(user_id)
        /\ ProcessVideoUrlWith(user_id, "A", TRUE, TRUE)

AskInOwnSession ==
    \E user_id \in Users, session_id \in 1..MaxSessions,
       conversation_id \in ConversationIds, gen_ok \in BOOLEAN :
        /\ Len(messages) < 2 * MaxMessages
        /\ get_session(sessions, session_id, user_id) # <<>>
        /\ HandleQueryWith(user_id, session_id, conversation_id,
                           [Output EXCEPT !.intent = "question"], TRUE, gen_ok)

TwoUserNext == ProcessOwnVideo \/ AskInOwnSession

TwoUserSpec == EngineInit /\ [][TwoUserNext]_vars

(***************************************************************************)
(* LogSpec: user u1 processes the video A, at most twice (the transcript   *)
(* row may fail to be written), deletes sessions, and asks in any of its   *)
(* sessions under any conversation id; the classifier says "question" or   *)
(* "search", or gives no answer or an answer without intent, and the       *)
(* embedding and generation services may be down during a request.         *)
(***************************************************************************)
LogOutputs ==
    { [Output EXCEPT !.intent = "question"], [Output EXCEPT !.intent = "search"],
      [Output EXCEPT !.answered = FALSE], [Output EXCEPT !.has_intent = FALSE] }

\* the twin sessions of the scenario
LogSessions == 2

ProcessVideoATwice ==
    /\ Len(sessions) < LogSessions
    /\ ProcessVideoA

AskAnything ==
    \E session_id \in 1..LogSessions, conversation_id \in ConversationIds,
       out \in LogOutputs, embed_ok \in BOOLEAN, gen_ok \in BOOLEAN :
        /\ Len(messages) <= MaxMessages
        /\ HandleQueryWith("u1", session_id, conversation_id, out, embed_ok, gen_ok)

LogNext == ProcessVideoATwice \/ DeleteSession \/ AskAnything

LogSpec == EngineInit /\ [][LogNext]_vars

(***************************************************************************)
(* Properties of the chunker (ChunkerSpec).                                *)
(***************************************************************************)
RECURSIVE Flatten(_)
Flatten(seqs) == IF seqs = <<>> THEN <<>> ELSE seqs[1] \o Flatten(Tail(seqs))

ChunkTextsOf(chunks) == [k \in 1..Len(chunks) |-> chunks[k].text]

GroupTexts(segments, group) == [j \in 1..Len(group) |-> segments[group[j]].text]

\* C1: joining the chunk texts in order with a single space reproduces the
\* segment texts joined in order with a single space, and every segment
\* contributes to exactly one chunk: the index groups of the chunks, laid end
\* to end, are 1, 2, ..., n, and each chunk's text is the join of its group.
ChunkingCoverage ==
    chunked.returned =>
        /\ Join(ChunkTextsOf(chunked.chunks)) = Join(SegTextsOf(transcript.segments))
        /\ Len(chunked.groups) = Len(chunked.chunks)
        /\ Flatten(chunked.groups) = [i \in 1..Len(transcript.segments) |-> i]
        /\ \A k \in 1..Len(chunked.chunks) :
              chunked.chunks[k].text = Join(GroupTexts(transcript.segments, chunked.groups[k]))

\* a run with several chunks, one of them merging two segments, whose last
\* chunk was emitted short because the transcript ended
ChunkingCoverageWitness ==
    /\ chunked.returned
    /\ Len(chunked.chunks) >= 2
    /\ \E k \in 1..Len(chunked.groups) : Len(chunked.groups[k]) >= 2
    /\ StrLen(chunked.chunks[Len(chunked.chunks)].text) < min_chunk_length

WellFormedSegments(segments) ==
    /\ Chronological(segments)
    /\ \A i \in 1..Len(segments) : segments[i].end >= segments[i].start

\* C2: for segments with non-decreasing start and end >= start, the chunks
\* have non-decreasing start values and every chunk has end >= start.
ChunkMonotonicity ==
    (chunked.returned /\ WellFormedSegments(transcript.segments)) =>
        /\ \A k \in 1..(Len(chunked.chunks) - 1) :
              chunked.chunks[k].start <= chunked.chunks[k + 1].start
        /\ \A k \in 1..Len(chunked.chunks) :
              chunked.chunks[k].end >= chunked.chunks[k].start

\* several chunks with strictly increasing starts, one of them built from two
\* segments the second of which ends before the first does
ChunkMonotonicityWitness ==
    /\ chunked.returned
    /\ Len(chunked.chunks) >= 2
    /\ chunked.chunks[1].start < chunked.chunks[2].start
    /\ \E k \in 1..Len(chunked.groups) :
          /\ Len(chunked.groups[k]) >= 2
          /\ transcript.segments[chunked.groups[k][2]].end
                < transcript.segments[chunked.groups[k][1]].end

ChunksDisjoint(chunks) ==
    \A k \in 1..(Len(chunks) - 1) : chunks[k].end <= chunks[k + 1].start

SegmentsDisjoint(segments) ==
    \A i \in 1..(Len(segments) - 1) : segments[i].end <= segments[i + 1].start

\* C3 as stated: for every chronological transcript (segments may start
\* before the previous one ends) each chunk's end is <= the next chunk's start.
ChunkSpansNonOverlapping ==
    (chunked.returned /\ WellFormedSegments(transcript.segments)) =>
        ChunksDisjoint(chunked.chunks)

\* C3 amended: when, in addition, no segment starts before the previous one
\* ends, each chunk's end is <= the next chunk's start.
ChunkSpansNonOverlappingIfSegmentsAre ==
    (chunked.returned /\ WellFormedSegments(transcript.segments)
                    /\ SegmentsDisjoint(transcript.segments)) =>
        ChunksDisjoint(chunked.chunks)

\* disjoint segments of positive duration chunked into at least two chunks
ChunkSpansWitness ==
    /\ chunked.returned
    /\ SegmentsDisjoint(transcript.segments)
    /\ Len(chunked.chunks) >= 2
    /\ chunked.chunks[1].start < chunked.chunks[1].end
    /\ \E k \in 1..Len(chunked.groups) : Len(chunked.groups[k]) >= 2

\* C18: every chunk starts at the start of its first segment and ends at the
\* end of its last segment; it was emitted when its space-joined text first
\* reached min_chunk_length (no shorter run of its leading segments had) or
\* at the final segment; so every chunk but the last is at least
\* min_chunk_length characters long.
ChunkEmissionRule ==
    chunked.returned =>
        /\ Len(chunked.groups) = Len(chunked.chunks)
        /\ \A k \in 1..Len(chunked.chunks) :
              LET g == chunked.groups[k]
                  c == chunked.chunks[k]
              IN  /\ g # <<>>
                  /\ c.start = transcript.segments[g[1]].start
                  /\ c.end = transcript.segments[g[Len(g)]].end
                  /\ \A j \in 1..(Len(g) - 1) :
                        StrLen(Join(GroupTexts(transcript.segments, SubSeq(g, 1, j))))
                            < min_chunk_length
                  /\ \/ StrLen(c.text) >= min_chunk_length
                     \/ g[Len(g)] = Len(transcript.segments)
                  /\ k < Len(chunked.chunks) => StrLen(c.text) >= min_chunk_length

\* a short segment merged with the next one into a chunk that exactly reaches
\* the threshold, followed by a final chunk shorter than the threshold
ChunkEmissionRuleWitness ==
    /\ chunked.returned
    /\ Len(chunked.chunks) = 2
    /\ Len(chunked.groups[1]) = 2
    /\ StrLen(chunked.chunks[1].text) = min_chunk_length
    /\ StrLen(chunked.chunks[2].text) < min_chunk_length
    /\ chunked.chunks[1].end > chunked.chunks[1].start

(***************************************************************************)
(* Properties of the time windows (WindowSpec).                            *)
(***************************************************************************)
\* the widened window of the snippet strategy, in half seconds
WidenedStart == Max(0, H(MinStart(timestamps)) - H(2))
WidenedEnd == H(MaxEnd(timestamps)) + H(2)

\* C19: the range of the snippet strategy is the widened window
\* (max(0, least start - 2), greatest end + 2) when that is no longer than
\* max_duration; otherwise it ends max_duration / 2 after the midpoint of the
\* first span and starts max_duration / 2 before it, or at 0.
SnippetTwoStepResolution ==
    window.path = "strategy" =>
        LET mid == timestamps[1].start + timestamps[1].end
            r == window.ranges[1]
        IN  IF WidenedEnd - WidenedStart <= H(max_duration)
            THEN r.start = WidenedStart /\ r.end = WidenedEnd
            ELSE r.end = mid + max_duration
                 /\ r.start = Max(0, mid - max_duration)

\* two spans with different midpoints, the widened window too long, and the
\* range centred on the first one
SnippetTwoStepResolutionWitness ==
    /\ window.path = "strategy"
    /\ Len(timestamps) = 2
    /\ timestamps[1].start + timestamps[1].end > timestamps[2].start + timestamps[2].end
    /\ WidenedEnd - WidenedStart > H(max_duration)
    /\ window.ranges[1].start > 0
    /\ window.ranges[1].end - window.ranges[1].start = H(max_duration)

\* the candidate list of the i-th computed range: all the spans for the
\* snippet strategy, the i-th result alone for /snippet/query
CandidatesOf(i) ==
    IF window.path = "strategy" THEN timestamps ELSE << timestamps[i] >>

Exceeds(i) ==
    H(MaxEnd(CandidatesOf(i))) + H(2)
        - Max(0, H(MinStart(CandidatesOf(i))) - H(2)) > H(max_duration)

\* the midpoint of the first candidate span, in half seconds
MidOf(i) == CandidatesOf(i)[1].start + CandidatesOf(i)[1].end

SymmetricExact(i) ==
    /\ window.ranges[i].end - window.ranges[i].start = H(max_duration)
    /\ MidOf(i) - window.ranges[i].start = window.ranges[i].end - MidOf(i)

\* C20 as stated: whenever the widened window exceeds max_duration, the range
\* is symmetric around the midpoint of the first candidate span and exactly
\* max_duration long, for every candidate list.
RecentredWindowExact ==
    \A i \in 1..Len(window.ranges) : Exceeds(i) => SymmetricExact(i)

\* C20 amended: whenever the widened window exceeds max_duration, the range
\* is symmetric around the midpoint of the first candidate span and exactly
\* max_duration long if that midpoint is at least max_duration / 2; if it is
\* less, the range starts at 0, ends max_duration / 2 after the midpoint and
\* is shorter than max_duration.
RecentredWindowExactUnlessFloored ==
    \A i \in 1..Len(window.ranges) :
        Exceeds(i) =>
            IF MidOf(i) >= max_duration
            THEN SymmetricExact(i)
            ELSE /\ window.ranges[i].start = 0
                 /\ window.ranges[i].end = MidOf(i) + max_duration
                 /\ window.ranges[i].end - window.ranges[i].start < H(max_duration)

\* /snippet/query recentred two results, one range floored at 0 and one not
RecentredWindowWitness ==
    /\ window.path = "batch"
    /\ Len(window.ranges) = 2
    /\ Exceeds(1) /\ MidOf(1) < max_duration
    /\ Exceeds(2) /\ MidOf(2) > max_duration
    /\ window.ranges[2].start > 0

\* C21: on a single candidate span the two paths compute the same range:
\* the range the snippet strategy returned is the one the loop of
\* /snippet/query computes for that span and max_duration, and the range
\* /snippet/query returned is the one the snippet strategy computes.
SamePathWindowing ==
    Len(timestamps) = 1 =>
        /\ window.path = "strategy" =>
              window.ranges[1] = ResultTimeRange(timestamps[1], max_duration)
        /\ window.path = "batch" =>
              window.ranges[1] = SnippetTimeRange(timestamps, max_duration)

\* the snippet strategy ran on one span whose widened window was too long
\* and recentred it without reaching 0
SamePathWindowingWitness ==
    /\ window.path = "strategy"
    /\ Len(timestamps) = 1
    /\ Exceeds(1)
    /\ window.ranges[1].start > 0
    /\ window.ranges[1].end - window.ranges[1].start = H(max_duration)

\* C9: for every non-empty list of spans with 0 <= start <= end and every
\* max_duration >= 0, the range of the snippet strategy and each per-result
\* range of /snippet/query satisfy end - start <= max_duration and start >= 0.
TimeWindowClamp ==
    \A i \in 1..Len(window.ranges) :
        /\ window.ranges[i].end - window.ranges[i].start <= H(max_duration)
        /\ window.ranges[i].start >= 0

\* a recentred range whose start had to be floored at 0
TimeWindowClampWitness ==
    /\ window.path = "strategy"
    /\ H(MaxEnd(timestamps)) + H(StrategyPadding)
          - Max(0, H(MinStart(timestamps)) - H(StrategyPadding)) > H(max_duration)
    /\ timestamps[1].start + timestamps[1].end < max_duration
    /\ window.ranges[1].start = 0

(***************************************************************************)
(* Properties of the engine (Spec) and of the request layer (ApiSpec).     *)
(***************************************************************************)
ChunksOfVideo(v) == chunk_transcript(TranscriptOf(v), DefaultMinChunkLength)

HoldsExactly(members, chunks) ==
    /\ DOMAIN members = 0..(Len(chunks) - 1)
    /\ \A i \in DOMAIN members :
          /\ members[i].text = chunks[i + 1].text
          /\ members[i].start = chunks[i + 1].start
          /\ members[i].end = chunks[i + 1].end

\* C4: after index_transcript(t, id) has completed, whatever the collection
\* held before, its members are exactly the chunks of t, one member per chunk.
IndexReplacesMembers ==
    (lastOp.op = "index_transcript" /\ lastOp.raised = "none") =>
        /\ lastOp.name \in DOMAIN collections
        /\ HoldsExactly(collections[lastOp.name], ChunksOfVideo(lastOp.video))
        /\ Cardinality(DOMAIN collections[lastOp.name]) = Len(ChunksOfVideo(lastOp.video))

\* a completed indexing over a collection that held more members than the
\* transcript has chunks (the chunks of another transcript)
IndexReplacesMembersWitness ==
    /\ lastOp.op = "index_transcript"
    /\ lastOp.raised = "none"
    /\ lastOp.existed
    /\ lastOp.before_count > Len(ChunksOfVideo(lastOp.video))

\* C5 (checked under ApiSpec): the collection named in a session row, once
\* populated, holds the chunks of that session's transcript, not those of a
\* transcript indexed later.
CollectionHoldsOwnTranscript ==
    \A i \in 1..Len(sessions) :
        (/\ sessions[i].collection_name \in DOMAIN collections
         /\ collections[sessions[i].collection_name] # NoMembers)
        => HoldsExactly(collections[sessions[i].collection_name],
                        chunk_transcript(sessions[i].transcript, DefaultMinChunkLength))

\* C6: every result returned by search has 0 <= relevance <= 1.
RelevanceBounds ==
    lastOp.op = "search" =>
        \A i \in 1..Len(lastOp.results) :
            /\ 0 <= lastOp.results[i].relevance
            /\ lastOp.results[i].relevance <= DistUnit

HitsAscending(hits) ==
    \A i \in 1..(Len(hits) - 1) : hits[i].distance <= hits[i + 1].distance

\* C7: given hits in ascending distance, the results of search are in
\* non-increasing relevance order and the i-th result carries the text, start
\* and end of the i-th hit.
ResultOrdering ==
    (lastOp.op = "search" /\ lastOp.raised = "none" /\ HitsAscending(lastOp.hits)) =>
        /\ Len(lastOp.results) = Len(lastOp.hits)
        /\ \A i \in 1..(Len(lastOp.results) - 1) :
              lastOp.results[i].relevance >= lastOp.results[i + 1].relevance
        /\ \A i \in 1..Len(lastOp.results) :
              /\ lastOp.results[i].text = lastOp.hits[i].document
              /\ lastOp.results[i].start = lastOp.hits[i].start
              /\ lastOp.results[i].end = lastOp.hits[i].end

\* a search that returned two results of different relevance and text
ResultOrderingWitness ==
    /\ lastOp.op = "search"
    /\ lastOp.raised = "none"
    /\ Len(lastOp.results) = 2
    /\ lastOp.results[1].relevance > lastOp.results[2].relevance
    /\ lastOp.results[1].text # lastOp.results[2].text

\* C8: search against an existing collection with zero members returns an
\* empty sequence and raises no error (the embedding service answering the
\* query embedding request).
SearchEmptyCollection ==
    (lastOp.op = "search" /\ lastOp.existed /\ lastOp.before_count = 0
        /\ lastOp.embed_ok) =>
        /\ lastOp.raised = "none"
        /\ lastOp.results = <<>>

\* a search that read a collection which exists and has no members
SearchEmptyCollectionWitness ==
    /\ lastOp.op = "search"
    /\ lastOp.name \in DOMAIN collections
    /\ collections[lastOp.name] = NoMembers
    /\ lastOp.embed_ok
    /\ lastOp.n_results >= 1

\* C10: ensure_collection_indexed(name, transcript), called when no collection
\* of that name exists and the transcript has at least one segment (the
\* embedding service answering), returns True, leaves a collection of exactly
\* that name holding the transcript's chunks and points the current-collection
\* pointer at it, so that the next search without a collection name reads a
\* non-empty collection; for every name index_transcript returns.
SelfHealCorrectness ==
    (/\ lastOp.op = "ensure_collection_indexed"
     /\ ~lastOp.existed
     /\ lastOp.has_transcript
     /\ lastOp.embed_ok)
    => /\ lastOp.raised = "none"
       /\ lastOp.ret_bool
       /\ lastOp.name \in DOMAIN collections
       /\ HoldsExactly(collections[lastOp.name], ChunksOfVideo(lastOp.video))
       /\ current = lastOp.name
       /\ collections[SearchName(NoName, current)] # NoMembers

\* C11: when the named collection exists (and the store answers the existence
\* check), ensure_collection_indexed returns True, sends no request to the
\* embedding service, leaves the members of every collection and every stored
\* row unchanged, and the current-collection pointer becomes the given name.
EnsureExistingOnlyMovesPointer ==
    [][ (/\ lastOp'.op = "ensure_collection_indexed"
         /\ lastOp'.name \in DOMAIN collections
         /\ lastOp'.store_ok)
        => (/\ lastOp'.ret_bool
            /\ lastOp'.raised = "none"
            /\ lastOp'.embed_calls = 0
            /\ collections' = collections
            /\ dbVars' = dbVars
            /\ current' = lastOp'.name) ]_vars

\* ensure_collection_indexed was called with a transcript for a populated
\* collection while the embedding service was down, and the pointer is on it
EnsureExistingOnlyMovesPointerWitness ==
    /\ lastOp.op = "ensure_collection_indexed"
    /\ lastOp.existed
    /\ lastOp.store_ok
    /\ lastOp.has_transcript
    /\ ~lastOp.embed_ok
    /\ lastOp.before_count > 0
    /\ current = lastOp.name

\* C15: when the store does not answer the existence check,
\* ensure_collection_indexed ends with an error and starts no rebuild (it
\* sends nothing to the embedding service).
ExistenceCheckFailureReported ==
    (lastOp.op = "ensure_collection_indexed" /\ ~lastOp.store_ok) =>
        /\ lastOp.raised # "none"
        /\ lastOp.embed_calls = 0

(***************************************************************************)
(* Properties of the query handler (QuerySpec).                            *)
(***************************************************************************)
\* C14: handle_user_query called without a transcript, the classifier
\* answering summary or keypoints, ends with an error (it returns no response
\* value) and makes no generation call.
SummaryWithoutTranscriptFails ==
    (/\ lastOp.op = "handle_user_query"
     /\ lastOp.intent \in {"summary", "keypoints"}
     /\ ~lastOp.has_transcript)
    => /\ lastOp.raised # "none"
       /\ ~lastOp.has_response
       /\ lastOp.generation_calls = 0

\* C16: in the snippet branch, the search having returned at least one span
\* and the classification carrying no max_duration (key absent, or null), the
\* call returns the time range computed with the maximum duration 60.
SnippetDefaultMaxDuration ==
    (/\ lastOp.op = "handle_user_query"
     /\ lastOp.intent = "snippet"
     /\ lastOp.parameters \in {"absent", "null"}
     /\ lastOp.hits # <<>>)
    => /\ lastOp.raised = "none"
       /\ lastOp.time_range
             = << SnippetTimeRange(FormatResults(lastOp.hits), DefaultMaxDuration) >>

(***************************************************************************)
(* Properties of the request layer (RequestSpec, IntentSpec,               *)
(* ConversationSpec).                                                      *)
(***************************************************************************)
SearchingRequests == {"search_video", "handle_query", "create_snippet_from_query"}

\* C12: a /search, /query or /snippet/query request for a session whose
\* collection is absent and which has no transcript: ensure_collection_indexed
\* returns False, no collection is created, the current-collection pointer
\* stays, and the request ends with an error status without calling search
\* and without adding a message.
NoTranscriptNoRebuild ==
    [][ (/\ lastOp'.op \in SearchingRequests
         /\ lastOp'.guarded
         /\ lastOp'.name \notin DOMAIN collections
         /\ ~sessions[lastOp'.session_id].saved)
        => (/\ ~lastOp'.ret_bool
            /\ lastOp'.raised = "none"
            /\ collections' = collections
            /\ current' = current
            /\ lastOp'.status = 500
            /\ ~lastOp'.searched
            /\ lastOp'.embed_calls = 0
            /\ sessions' = sessions
            /\ messages' = messages) ]_vars

\* a /query request was refused for a live session without a transcript row
\* whose collection had been deleted through another session
NoTranscriptNoRebuildWitness ==
    /\ lastOp.op = "handle_query"
    /\ lastOp.guarded
    /\ ~lastOp.existed
    /\ ~lastOp.has_transcript
    /\ lastOp.status = 500
    /\ sessions[lastOp.session_id].live
    /\ \E i \in 1..Len(sessions) : ~sessions[i].live

MalformedOutput(out) ==
    \/ ~out.has_intent
    \/ ~out.has_topic
    \/ out.parameters = "missing"
    \/ out.intent \notin Intents

\* C13: when the classifier's answer carries an intent outside the five
\* known ones or lacks "intent", "topic" or "parameters", the /query request
\* that got it ends with an error: handle_user_query returns no response and
\* no message is added to the conversation.
UnknownIntentFails ==
    (/\ lastOp.op = "handle_query"
     /\ lastOp.classified
     /\ lastOp.output.answered
     /\ MalformedOutput(lastOp.output))
    => /\ lastOp.raised # "none"
       /\ lastOp.status = 500
       /\ lastOp.appended = 0

\* C17: the history read by a /query request is the last min(10, n) of the n
\* messages the conversation had when the request arrived, oldest first.
ContextIsMostRecentTurns ==
    (lastOp.op = "handle_query" /\ lastOp.classified) =>
        LET all == IdsOf(SelectSeq(messages,
                           LAMBDA m : m.conversation_id = lastOp.conversation_id))
            old == SubSeq(all, 1, Len(all) - lastOp.appended)
            k   == Min(HistoryLimit, Len(old))
        IN  lastOp.history = SubSeq(old, Len(old) - k + 1, Len(old))

(***************************************************************************)
(* Properties of the indexing of long transcripts (LongIndexSpec).         *)
(***************************************************************************)
\* C22: after index_transcript has completed, the collection has one member
\* per chunk, under the ids chunk_0 .. chunk_(n-1), and the member chunk_i
\* carries the text, the start and the end of the i-th chunk and the vector
\* the embedding service gives for that chunk's text, for any number of
\* chunks (one request per batch of batch_size texts).
IndexOrderPreserved ==
    (lastOp.op = "index_transcript" /\ lastOp.raised = "none" /\ chunked.returned) =>
        /\ DOMAIN collections[lastOp.name] = 0..(Len(chunked.chunks) - 1)
        /\ \A i \in DOMAIN collections[lastOp.name] :
              /\ collections[lastOp.name][i].text = chunked.chunks[i + 1].text
              /\ collections[lastOp.name][i].embedding
                    = VectorOf(chunked.chunks[i + 1].text)
              /\ collections[lastOp.name][i].start = chunked.chunks[i + 1].start
              /\ collections[lastOp.name][i].end = chunked.chunks[i + 1].end
        /\ lastOp.embed_calls * batch_size >= Len(chunked.chunks)
        /\ (lastOp.embed_calls - 1) * batch_size < Len(chunked.chunks)

\* a completed indexing of more than two batches of chunks: three requests
\* were sent, and the first member of the second batch has its own vector
IndexOrderPreservedWitness ==
    /\ lastOp.op = "index_transcript"
    /\ lastOp.raised = "none"
    /\ Len(chunked.chunks) > 2 * batch_size
    /\ lastOp.embed_calls = 3
    /\ collections[lastOp.name][batch_size].embedding
          = VectorOf(chunked.chunks[batch_size + 1].text)
    /\ collections[lastOp.name][batch_size].embedding
          # collections[lastOp.name][0].embedding

(***************************************************************************)
(* Properties of the requests handled one at a time (SwitchSpec).          *)
(***************************************************************************)
\* C23: whenever a /search, /query or /snippet/query request issues a
\* search, the search reads the collection named by the requesting
\* session's collection_name, the current-collection pointer is that name,
\* and every result is a member of that collection.
SearchReadsSessionCollection ==
    (lastOp.op \in SearchingRequests /\ lastOp.searched) =>
        /\ lastOp.name = sessions[lastOp.session_id].collection_name
        /\ lastOp.ret_name = lastOp.name
        /\ current = lastOp.name
        /\ \A i \in 1..Len(lastOp.results) :
              \E m \in DOMAIN collections[lastOp.name] :
                  /\ collections[lastOp.name][m].text = lastOp.results[i].text
                  /\ collections[lastOp.name][m].start = lastOp.results[i].start
                  /\ collections[lastOp.name][m].end = lastOp.results[i].end

\* a search answered for the first session while the pointer was on the
\* collection of the second one
SearchReadsSessionCollectionWitness ==
    /\ lastOp.op \in SearchingRequests
    /\ lastOp.searched
    /\ lastOp.status = 200
    /\ lastOp.results # <<>>
    /\ lastOp.session_id = 1
    /\ Len(sessions) = 2
    /\ sessions[2].live
    /\ lastOp.current_before = sessions[2].collection_name
    /\ lastOp.current_before # lastOp.name

(***************************************************************************)
(* Properties of the requests handled at the same time (InterleavedSpec).  *)
(***************************************************************************)
\* C24: a search that reads a collection right after another thread's
\* index_transcript has cleared it, before that call or any other has added
\* chunks to it, is answered without error and with no result, however many
\* members the collection held before the re-index.
SearchDuringReindexSeesNothing ==
    \A t \in Threads :
        (running[t].op = "search_video" /\ running[t].pc = "done"
             /\ running[t].between) =>
            /\ running[t].status = 200
            /\ running[t].results = <<>>

\* such a search got no result from the collection of its own session, and
\* the re-index, now complete, found the collection holding every chunk of
\* the transcript and left it holding every chunk again
SearchDuringReindexWitness ==
    \E t \in Threads, u \in Threads :
        /\ running[t].op = "search_video" /\ running[t].pc = "done"
        /\ running[t].between
        /\ running[t].results = <<>>
        /\ running[t].read_name = running[t].name
        /\ running[u].op = "process_video_url" /\ running[u].pc = "done"
        /\ running[u].name = running[t].read_name
        /\ running[u].before_count
              = Len(chunk_transcript(TranscriptOf(running[u].video), DefaultMinChunkLength))
        /\ running[u].before_count > 0
        /\ MemberCount(collections, running[u].name) = running[u].before_count

\* C25: whatever the interleaving, a search answered on behalf of a request
\* has read the collection of that request's own session.
InterleavedSearchReadsOwnCollection ==
    \A t \in Threads :
        (running[t].op = "search_video" /\ running[t].pc = "done"
             /\ running[t].status = 200) =>
            running[t].read_name = sessions[running[t].session_id].collection_name

(***************************************************************************)
(* Further properties of the engine (Spec).                                *)
(***************************************************************************)
\* C26: a call of index_transcript that fails while generating embeddings
\* leaves the store and the current-collection pointer as they were before
\* the call.
FailedIndexLeavesState ==
    [][ (lastOp'.op = "index_transcript" /\ lastOp'.raised = "embedding")
            => (collections' = collections /\ current' = current) ]_vars

\* C27: after every call of the engine, completed or failed, the
\* current-collection pointer is None or the name of a collection the store
\* holds.
PointerNamesExistingCollection ==
    current = NoName \/ current \in DOMAIN collections

\* delete_collection removed the collection the pointer was on, another
\* collection remaining
PointerNamesExistingCollectionWitness ==
    /\ lastOp.op = "delete_collection"
    /\ lastOp.raised = "none"
    /\ lastOp.current_before = lastOp.name
    /\ lastOp.name \notin DOMAIN collections
    /\ current = NoName
    /\ DOMAIN collections # {}

(***************************************************************************)
(* Properties of the conversations of two users (TwoUserSpec).             *)
(***************************************************************************)
\* C28: a /query request that read turns of a conversation as history, or
\* appended turns to it, did so for a conversation whose row names the
\* requesting user and the session of the request.
QueryUsesOwnConversationOnly ==
    (/\ lastOp.op = "handle_query"
     /\ lastOp.history # <<>> \/ lastOp.appended > 0)
    => /\ lastOp.conversation_id \in DOMAIN conversations
       /\ conversations[lastOp.conversation_id].user_id = lastOp.user_id
       /\ conversations[lastOp.conversation_id].session_id = lastOp.session_id

(***************************************************************************)
(* Properties of the deletion of a session (RequestSpec).                  *)
(***************************************************************************)
\* what a session owns besides its row: its collection, if the store holds
\* it, and the turns of its conversations
CollectionOfSession(colls, row) ==
    IF row.collection_name \in DOMAIN colls
    THEN << colls[row.collection_name] >> ELSE <<>>

TurnsOfSession(convs, msgs, session_id) ==
    SelectSeq(msgs, LAMBDA m : /\ m.conversation_id \in DOMAIN convs
                               /\ convs[m.conversation_id].session_id = session_id)

\* C29: a DELETE /sessions/{id} request that is answered 200 leaves every
\* other live session as it was: its row and transcript, its collection and
\* the members of it, its conversations and their turns.
DeleteSessionLeavesOthers ==
    [][(lastOp'.op = "delete_session" /\ lastOp'.status = 200) =>
          \A i \in 1..Len(sessions) :
              (i # lastOp'.session_id /\ sessions[i].live) =>
                  /\ sessions'[i] = sessions[i]
                  /\ CollectionOfSession(collections', sessions[i])
                       = CollectionOfSession(collections, sessions[i])
                  /\ TurnsOfSession(conversations', messages', i)
                       = TurnsOfSession(conversations, messages, i)]_vars

(***************************************************************************)
(* Properties of the message log (LogSpec).                                *)
(***************************************************************************)
TurnsOf(msgs, conversation_id) ==
    SelectSeq(msgs, LAMBDA m : m.conversation_id = conversation_id)

RolesAlternate(turns) ==
    \A k \in 1..Len(turns) :
        turns[k].role = IF k % 2 = 1 THEN "user" ELSE "assistant"

\* the log after the step is the log before it followed by one user turn and
\* one assistant turn of the conversation, with greater ids, in that order
PairAppended(before, after, conversation_id) ==
    /\ Len(after) = Len(before) + 2
    /\ SubSeq(after, 1, Len(before)) = before
    /\ after[Len(before) + 1].role = "user"
    /\ after[Len(before) + 2].role = "assistant"
    /\ after[Len(before) + 1].conversation_id = conversation_id
    /\ after[Len(before) + 2].conversation_id = conversation_id
    /\ after[Len(before) + 1].id < after[Len(before) + 2].id
    /\ \A k \in 1..Len(before) : before[k].id < after[Len(before) + 1].id

\* C30: a /query request that returns a result appends one user turn and
\* then one assistant turn to its conversation and leaves every earlier turn
\* of every conversation as it was and where it was; a /query request that
\* fails (no session, index guard, transcript, classification, retrieval or
\* generation) leaves the log as it was; and in every conversation the roles
\* alternate, beginning with user.
MessageLogGrowsInPairs ==
    /\ [](\A c \in ConversationIds : RolesAlternate(TurnsOf(messages, c)))
    /\ [][lastOp'.op = "handle_query" =>
             IF lastOp'.status = 200
             THEN PairAppended(messages, messages', lastOp'.conversation_id)
             ELSE messages' = messages]_vars

\* a second pair has been appended to a conversation that had one
MessageLogGrowsInPairsWitness ==
    /\ lastOp.op = "handle_query"
    /\ lastOp.status = 200
    /\ lastOp.appended = 2
    /\ Len(TurnsOf(messages, lastOp.conversation_id)) = 4

====
